---- MODULE Spec2Model ----
(***************************************************************************)
(* Tiled, multi-pass, multi-class segmentation of bsmu.biocell:            *)
(*   inference/segmenters/tiled.py   TiledSegmentationTask,                *)
(*                                   MultipassTiledSegmentationTask,       *)
(*                                   MulticlassMultipassTiledSegmentation- *)
(*                                   Task, _tile_weights, the profile      *)
(*   plugins/pca_segmenter.py        PcaSegmenter.combine_class_masks      *)
(*                                                                         *)
(* Arrays are 0-based, as in numpy: [shape |-> <<rows, cols>>, at |-> f]   *)
(* with f defined on (0..rows-1) \X (0..cols-1).                           *)
(* A float is a fraction <<n, d>> in lowest terms with d >= 0; d = 0 gives *)
(* the IEEE special values numpy produces on a division by zero:           *)
(* <<0,0>> is NaN, <<1,0>> is +inf, <<-1,0>> is -inf.  Rounding of float16 *)
(* and float32 is not modelled: finite values are exact.                   *)
(***************************************************************************)
EXTENDS Integers, Sequences, FiniteSets, TLC

\* ------------------------------------------------------------------ bounds
\* Largest image height and width that Init draws.
MaxDim == 3
\* Largest model batch size that Init draws.
MaxBatch == 3

\* Tile sizes (model input sizes) that Init draws; _tile_weights accepts the even ones.
TileSizes == {2, 3, 4}

\* ------------------------------------------------------------------ floats
RECURSIVE Gcd(_, _)
Gcd(a, b) == IF b = 0 THEN a ELSE Gcd(b, a % b)

Abs(x) == IF x < 0 THEN -x ELSE x
Sign(x) == IF x < 0 THEN -1 ELSE IF x = 0 THEN 0 ELSE 1

\* The float n/d; n/0 is +-inf and 0/0 is NaN, as numpy's true division gives.
Float(n, d) ==
    IF d = 0 THEN <<Sign(n), 0>>
    ELSE LET g == Gcd(Abs(n), Abs(d))
         IN  <<(Sign(d) * n) \div g, Abs(d) \div g>>

NaN == <<0, 0>>
IsNaN(x) == x = NaN
IsInf(x) == x[2] = 0 /\ x[1] # 0

FloatOfInt(n) == <<n, 1>>

FAdd(x, y) ==
    IF IsNaN(x) \/ IsNaN(y) THEN NaN
    ELSE IF IsInf(x) /\ IsInf(y) THEN (IF x = y THEN x ELSE NaN)
    ELSE IF IsInf(x) THEN x
    ELSE IF IsInf(y) THEN y
    ELSE Float(x[1] * y[2] + y[1] * x[2], x[2] * y[2])

FMul(x, y) ==
    IF IsNaN(x) \/ IsNaN(y) THEN NaN
    ELSE IF IsInf(x) \/ IsInf(y)
         THEN (IF x[1] = 0 \/ y[1] = 0 THEN NaN ELSE <<Sign(x[1]) * Sign(y[1]), 0>>)
    ELSE Float(x[1] * y[1], x[2] * y[2])

FDiv(x, y) ==
    IF IsNaN(x) \/ IsNaN(y) THEN NaN
    ELSE IF IsInf(x) THEN (IF IsInf(y) THEN NaN
                           ELSE <<x[1] * (IF y[1] < 0 THEN -1 ELSE 1), 0>>)
    ELSE IF IsInf(y) THEN <<0, 1>>
    ELSE Float(x[1] * y[2], x[2] * y[1])

\* x > y; every comparison with NaN is false.
FGt(x, y) ==
    IF IsNaN(x) \/ IsNaN(y) THEN FALSE
    ELSE IF IsInf(x) THEN x[1] > 0 /\ y # x
    ELSE IF IsInf(y) THEN y[1] < 0
    ELSE x[1] * y[2] > y[1] * x[2]

\* ------------------------------------------------------------------ arrays
Index(rows, cols) == (0 .. rows - 1) \X (0 .. cols - 1)

Array(rows, cols, f(_, _)) ==
    [shape |-> <<rows, cols>>, at |-> [p \in Index(rows, cols) |-> f(p[1], p[2])]]

Rows(a) == a.shape[1]
Cols(a) == a.shape[2]

\* np.full(shape, fill_value)
Full(rows, cols, v) == Array(rows, cols, LAMBDA r, c: v)

\* a op b, element by element, for arrays of one shape
Map2(a, b, op(_, _)) == Array(Rows(a), Cols(a), LAMBDA r, c: op(a.at[<<r, c>>], b.at[<<r, c>>]))

\* Python's a[lo:hi] on an axis of length n (lo >= 0): the indices kept
SliceLen(n, lo, hi) ==
    LET h == IF hi < 0 THEN (IF hi + n < 0 THEN 0 ELSE hi + n) ELSE (IF hi > n THEN n ELSE hi)
        l == IF lo > n THEN n ELSE lo
    IN  IF h > l THEN h - l ELSE 0

\* image[r0:r1, c0:c1]
Slice(a, r0, r1, c0, c1) ==
    Array(SliceLen(Rows(a), r0, r1), SliceLen(Cols(a), c0, c1),
          LAMBDA r, c: a.at[<<r0 + r, c0 + c>>])

\* ------------------------------------------------------------------ padding
\* pad_value=255 of _padded_image_to_tile
pad_value == 255

\* image_pads with the larger half of the pad amount in front
image_pads_larger_half_leading(rows, cols, tile_size, extra_pads) ==
    LET pad_rows == ((-rows) % tile_size) + extra_pads[1] * tile_size
        pad_cols == ((-cols) % tile_size) + extra_pads[2] * tile_size
        pad_rows_half == pad_rows \div 2
        pad_cols_half == pad_cols \div 2
    IN  <<<<pad_rows - pad_rows_half, pad_rows_half>>,
          <<pad_cols - pad_cols_half, pad_cols_half>>>>

\* image_pads with the extra tiles added after the pad amount is halved, all in front
image_pads_extra_leading(rows, cols, tile_size, extra_pads) ==
    LET pad_rows == (-rows) % tile_size
        pad_cols == (-cols) % tile_size
        pad_rows_half == pad_rows \div 2
        pad_cols_half == pad_cols \div 2
    IN  <<<<pad_rows_half + extra_pads[1] * tile_size, pad_rows - pad_rows_half>>,
          <<pad_cols_half + extra_pads[2] * tile_size, pad_cols - pad_cols_half>>>>

\* The pads of _padded_image_to_tile: ((lead, trail) of rows, (lead, trail) of cols)
image_pads(rows, cols, tile_size, extra_pads) ==
    LET pad_rows == ((-rows) % tile_size) + extra_pads[1] * tile_size
        pad_cols == ((-cols) % tile_size) + extra_pads[2] * tile_size
        pad_rows_half == pad_rows \div 2
        pad_cols_half == pad_cols \div 2
    IN  <<<<pad_rows_half, pad_rows - pad_rows_half>>,
          <<pad_cols_half, pad_cols - pad_cols_half>>>>

\* np.pad(image, pads, constant_values=pad_value); the channel axis gets no pad
np_pad(img, p, channels) ==
    Array(p[1][1] + Rows(img) + p[1][2], p[2][1] + Cols(img) + p[2][2],
          LAMBDA r, c:
              IF /\ r >= p[1][1] /\ r < p[1][1] + Rows(img)
                 /\ c >= p[2][1] /\ c < p[2][1] + Cols(img)
              THEN img.at[<<r - p[1][1], c - p[2][1]>>]
              ELSE [k \in 1 .. channels |-> pad_value])

\* The pad call with the two pad amounts of each axis exchanged
pad_image_exchanged(img, p, channels) ==
    np_pad(img, <<<<p[1][2], p[1][1]>>, <<p[2][2], p[2][1]>>>>, channels)

\* The call np.pad(image, pads, constant_values=pad_value) of _padded_image_to_tile
pad_image(img, p, channels) == np_pad(img, p, channels)

padded_image_to_tile(image, channels, tile_size, extra_pads) ==
    LET pads == image_pads(Rows(image), Cols(image), tile_size, extra_pads)
    IN  [image |-> pad_image(image, pads, channels), pads |-> pads]

\* unpad_image with the trailing pad as a negative stop, image[lead:-trail]
unpad_image_negative_stop(img, p) ==
    Slice(img, p[1][1], -p[1][2], p[2][1], -p[2][2])

unpad_image(image, pads) ==
    Slice(image, pads[1][1], Rows(image) - pads[1][2], pads[2][1], Cols(image) - pads[2][2])

\* tiled_image[tile_row, tile_col] of _tiled_image: a view of the padded image
tiled_image_at(image, tile_size, tile_row, tile_col) ==
    Array(tile_size, tile_size,
          LAMBDA r, c: image.at[<<tile_row * tile_size + r, tile_col * tile_size + c>>])

\* tiled_image.shape[:2]
tiled_image_shape(image, tile_size) == <<Rows(image) \div tile_size, Cols(image) \div tile_size>>

\* ------------------------------------------------------------------ tile weights
\* int_weights of _tile_weights: 0, 1, ..., max, max, ..., 1, 0
int_weight(tile_size, i) ==
    LET max_int_weight == (tile_size \div 2) - 1
    IN  IF i <= max_int_weight THEN i ELSE tile_size - 1 - i

\* _tile_weights without its assertion
tile_weights_precondition_absent(tile_size) == TRUE

\* assert tile_size % 2 == 0 of _tile_weights: an odd tile size raises AssertionError
\* and no weight map is returned
tile_weights_precondition(tile_size) == tile_size % 2 = 0

tile_weights(tile_size) ==
    LET max_int_weight == (tile_size \div 2) - 1
    IN  Array(tile_size, tile_size,
              LAMBDA r, c:
                  LET wr == int_weight(tile_size, r)
                      wc == int_weight(tile_size, c)
                  IN  Float(IF wr < wc THEN wr ELSE wc, max_int_weight))

\* np.tile(tile_weights, reps)
np_tile(a, reps) ==
    Array(Rows(a) * reps[1], Cols(a) * reps[2],
          LAMBDA r, c: a.at[<<r % Rows(a), c % Cols(a)>>])

\* ------------------------------------------------------------------ the Segmenter
\* bsmu.vision.dnn.segmenter.Segmenter is a collaborator outside this repository: a
\* deterministic map from a tile to a raw (pre-binarization) tile mask.  Three such
\* maps stand for it:
\*   "ones"      every pixel 1
\*   "pixel"     a function of the pixel alone: (first channel mod 3) / 2
\*   "position"  a function of the place in the tile alone: 1 in the upper half of the
\*               tile, 0 in the lower half
Models == {"ones", "pixel", "position"}

segment(model, tile) ==
    Array(Rows(tile), Cols(tile),
          LAMBDA r, c:
              IF model = "ones" THEN FloatOfInt(1)
              ELSE IF model = "pixel" THEN Float(tile.at[<<r, c>>][1] % 3, 2)
              ELSE FloatOfInt(IF r < Rows(tile) \div 2 THEN 1 ELSE 0))

\* segment_batch_without_postresize: the masks of the tiles, in order
segment_batch_without_postresize(model, tiles) ==
    [i \in 1 .. Len(tiles) |-> segment(model, tiles[i])]

\* mask_binarization_threshold of the model params
mask_binarization_threshold(model) == Float(1, 2)

\* ------------------------------------------------------------------ inputs
\* image.pixels: "uniform" holds one value everywhere, "coded" a different value at
\* every pixel and channel
image_pixels(kind, rows, cols, channels) ==
    Array(rows, cols,
          LAMBDA r, c:
              [k \in 1 .. channels |->
                  IF kind = "uniform" THEN 200 ELSE 4 * (r * cols + c) + k])

Images ==
    { [kind |-> "uniform", channels |-> 3],
      [kind |-> "coded", channels |-> 3],
      [kind |-> "coded", channels |-> 4] }

\* A MultipassTiledSegmenter: its DnnSegmenter (model, tile and batch size) and the
\* palette rows of 'background' and of its foreground class
ClassSegmenter(model, tile_size, batch_size, bg, fg) ==
    [model |-> model, tile_size |-> tile_size, batch_size |-> batch_size,
     mask_background_class |-> bg, mask_foreground_class |-> fg]

\* PcaSegmenter._class_segmenters: one class, or gleason_3 followed by gleason_4
ClassSegmenterLists(tile_size, batch_size) ==
    { <<ClassSegmenter(m, tile_size, batch_size, ids[1], ids[2])>> :
          m \in Models, ids \in {<<0, 1>>, <<1, 2>>} }
    \cup
    { <<ClassSegmenter(ms[1], tile_size, batch_size, 0, 1),
        ClassSegmenter(ms[2], tile_size, batch_size, 0, 2)>> :
          ms \in {<<"pixel", "position">>, <<"position", "pixel">>, <<"ones", "pixel">>} }

SegmentationModes == {"HIGH_QUALITY", "FAST"}

\* ------------------------------------------------------------------ profile
\* extra_pads_sequence with the second and third offset pair exchanged
extra_pads_sequence_exchanged(segmentation_mode) ==
    IF segmentation_mode = "HIGH_QUALITY"
    THEN <<<<0, 0>>, <<1, 0>>, <<1, 1>>, <<0, 1>>>>
    ELSE <<<<0, 0>>>>

extra_pads_sequence(segmentation_mode) ==
    IF segmentation_mode = "HIGH_QUALITY"
    THEN <<<<0, 0>>, <<1, 1>>, <<1, 0>>, <<0, 1>>>>
    ELSE <<<<0, 0>>>>

\* MultipassTiledSegmentationProfile(segmenter, mode, background, foreground);
\* __post_init__ fills tile_weights
MultipassTiledSegmentationProfile(class_segmenter, segmentation_mode) ==
    [segmenter |-> [model |-> class_segmenter.model,
                    tile_size |-> class_segmenter.tile_size,
                    batch_size |-> class_segmenter.batch_size],
     segmentation_mode |-> segmentation_mode,
     mask_background_class |-> class_segmenter.mask_background_class,
     mask_foreground_class |-> class_segmenter.mask_foreground_class,
     tile_weights |-> tile_weights(class_segmenter.tile_size)]

\* profile.extra_pads_sequence: the property of MultipassTiledSegmentationProfile, or
\* the sequence a profile object of another class carries
profile_extra_pads_sequence(prof) ==
    IF "extra_pads_sequence" \in DOMAIN prof
    THEN prof.extra_pads_sequence
    ELSE extra_pads_sequence(prof.segmentation_mode)

\* A blend run that starts its loop whatever the offset sequence is
extra_pads_sequence_unasserted(prof) == TRUE

\* assert self._segmentation_profile.extra_pads_sequence: an empty sequence is falsy
extra_pads_sequence_asserted(prof) == Len(profile_extra_pads_sequence(prof)) > 0

\* ------------------------------------------------------------------ state
None == <<>>
Some(x) == <<x>>
Get(opt) == opt[1]

VARIABLES
    pc,                     \* where the request is
    image,                  \* image.pixels, the input
    image_channels,         \* image.shape[2]
    segmentation_mode,      \* the mode of the request
    class_segmenters,       \* PcaSegmenter._class_segmenters
    segmentation_profiles,  \* MulticlassMultipassTiledSegmentationTask._segmentation_profiles
    class_iter,             \* classes whose blend run is complete
    class_finished_subtask_count,  \* Multiclass...Task._finished_subtask_count
    masks,                  \* the class masks collected so far
    blend_log,              \* the profiles whose blend run the multi-class loop has created
    pass_iter,              \* passes of the current blend run that are complete
    finished_subtask_count, \* MultipassTiledSegmentationTask._finished_subtask_count
    mask,                   \* the blend run's mask (None before the first pass)
    weighted_mask,          \* the blend run's weighted_mask
    weight_sum,             \* the blend run's weight_sum
    weight_sum_base,        \* the array whose memory weight_sum is a view of
    pass_log,               \* the passes the blend run has created: offsets and binarize flag
    extra_pads,             \* TiledSegmentationTask._extra_pads
    binarize_mask,          \* TiledSegmentationTask._binarize_mask
    padded_image,           \* the pass's padded image
    pads,                   \* the pass's pad descriptor
    padded_mask,            \* the pass's padded raw mask
    write_count,            \* how often each pixel of padded_mask was assigned a tile result
    tile_row_count, tile_col_count, total_tile_count,
    segmented_tile_count,
    tile_pos,               \* tiles the pass's loop has taken, in row-major order
    tile_batch,             \* the batched path's tile_batch
    tile_rc_batch,          \* the batched path's tile_rc_batch
    segment_calls,          \* the pass's calls of the Segmenter, oldest first
    step_progress,          \* the pass's calls of _change_step_progress: (count, total)
    progress_log,           \* the progress values the request's task has reported
    combined_mask,          \* the result of combine_class_masks (None before)
    is_cancelled,           \* Task._is_cancelled: the request has been cancelled
    mask_at_cancel,         \* the padded raw mask at the moment of the cancellation
    raised,                 \* the Segmenter has raised an exception
    pad_call,               \* a call of _padded_image_to_tile: rows, cols, tile_size, extra_pads
    pad_result,             \* what the call and the tiling of its result gave (None before)
    mask_draw_mode,         \* the draw mode of the request of the GUI
    mask_layer,             \* layered_image.layer_by_name(mask_layer_name), None without one
    mask_layer_before,      \* the mask layer the completion callback found (None before it)
    dir_config,             \* the DirSegmentationConfig of a directory run (None without one)
    image_dir,              \* what image_dir.glob('**/*') yields, in its order
    mask_dir,               \* the files under mask_dir: the image whose mask the run wrote
                            \* to each path (None for a file from before the run)
    relative_image_paths,   \* PcaDirSegmentationTask._relative_image_paths
    dir_finished_subtask_count,  \* files whose loop iteration is complete
    write_log,              \* the calls of write_to_file of the run, oldest first
    requests,               \* the requests running at once: segmenter kind, mode and
                            \* steps of each
    request_pos,            \* the steps each of them has taken
    request_names,          \* for each scope, the object each of its names is bound to
    request_created,        \* how many objects each request has created
    last_access             \* the last access of each request to an object (None before)

request_vars == <<image, image_channels, segmentation_mode, class_segmenters>>
class_vars == <<segmentation_profiles, class_iter, class_finished_subtask_count, masks,
               blend_log>>
blend_vars == <<pass_iter, finished_subtask_count, mask, weighted_mask, weight_sum,
               weight_sum_base, pass_log>>
pass_vars == <<extra_pads, binarize_mask, padded_image, pads, padded_mask, write_count,
               tile_row_count, tile_col_count, total_tile_count, segmented_tile_count,
               tile_pos, tile_batch, tile_rc_batch, segment_calls, step_progress>>
fault_vars == <<is_cancelled, mask_at_cancel, raised>>
pad_vars == <<pad_call, pad_result>>
gui_vars == <<mask_draw_mode, mask_layer, mask_layer_before>>
dir_vars == <<dir_config, image_dir, mask_dir, relative_image_paths,
              dir_finished_subtask_count, write_log>>
concurrent_vars == <<requests, request_pos, request_names, request_created, last_access>>
aux_vars == <<pad_vars, gui_vars, dir_vars, concurrent_vars>>
core_vars == <<pc, request_vars, class_vars, blend_vars, pass_vars, combined_mask, fault_vars,
              progress_log>>
vars == <<core_vars, aux_vars>>

\* The profiles taken from the last one backwards
profile_from_last == segmentation_profiles[Len(segmentation_profiles) - class_iter]

\* The profile and Segmenter of the running blend run
profile == segmentation_profiles[class_iter + 1]
tile_size == profile.segmenter.tile_size
batch_size == profile.segmenter.batch_size

EmptyArray == Full(0, 0, NaN)

\* No call of _padded_image_to_tile from outside a request
NoPadCall ==
    /\ pad_call = None
    /\ pad_result = None

\* The values of the variables that do not belong to a segmentation request
\* No request of the GUI
NoGuiRequest == mask_draw_mode = "REDRAW_ALL" /\ mask_layer = None /\ mask_layer_before = None

\* No directory run
NoDirRun ==
    /\ dir_config = None
    /\ image_dir = <<>>
    /\ mask_dir = <<>>
    /\ relative_image_paths = None
    /\ dir_finished_subtask_count = 0
    /\ write_log = <<>>

\* No requests running at once
NoConcurrentRequests ==
    /\ requests = <<>>
    /\ request_pos = <<>>
    /\ request_names = <<>>
    /\ request_created = <<>>
    /\ last_access = <<>>

InitAux == NoPadCall /\ NoGuiRequest /\ NoDirRun /\ NoConcurrentRequests

Init ==
    /\ pc = "start"
    /\ \E rows \in 1 .. MaxDim, cols \in 1 .. MaxDim, img \in Images :
          /\ image = image_pixels(img.kind, rows, cols, img.channels)
          /\ image_channels = img.channels
    /\ segmentation_mode \in SegmentationModes
    /\ \E ts \in TileSizes, bs \in 1 .. MaxBatch :
          class_segmenters \in ClassSegmenterLists(ts, bs)
    /\ segmentation_profiles = <<>>
    /\ class_iter = 0
    /\ class_finished_subtask_count = 0
    /\ masks = <<>>
    /\ blend_log = <<>>
    /\ pass_iter = 0
    /\ finished_subtask_count = 0
    /\ mask = None
    /\ weighted_mask = None
    /\ weight_sum = None
    /\ weight_sum_base = None
    /\ pass_log = <<>>
    /\ extra_pads = <<0, 0>>
    /\ binarize_mask = TRUE
    /\ padded_image = EmptyArray
    /\ pads = <<<<0, 0>>, <<0, 0>>>>
    /\ padded_mask = EmptyArray
    /\ write_count = Full(0, 0, 0)
    /\ tile_row_count = 0
    /\ tile_col_count = 0
    /\ total_tile_count = 0
    /\ segmented_tile_count = 0
    /\ tile_pos = 0
    /\ tile_batch = <<>>
    /\ tile_rc_batch = <<>>
    /\ segment_calls = <<>>
    /\ step_progress = <<>>
    /\ progress_log = <<>>
    /\ combined_mask = None
    /\ is_cancelled = FALSE
    /\ mask_at_cancel = None
    /\ raised = FALSE
    /\ InitAux

\* PcaSegmenter.create_segmentation_task: one profile per class segmenter, in order.
\* __post_init__ of a profile calls _tile_weights; when its assertion fails the
\* exception leaves create_segmentation_task and no task is created.
create_segmentation_task ==
    /\ pc = "start"
    /\ IF \A i \in 1 .. Len(class_segmenters) :
              tile_weights_precondition(class_segmenters[i].tile_size)
       THEN /\ segmentation_profiles' =
                  [i \in 1 .. Len(class_segmenters) |->
                      MultipassTiledSegmentationProfile(class_segmenters[i], segmentation_mode)]
            /\ pc' = "classes"
       ELSE /\ segmentation_profiles' = segmentation_profiles
            /\ pc' = "failed"
    /\ UNCHANGED <<aux_vars, fault_vars, progress_log, request_vars, class_iter, class_finished_subtask_count, masks,
                   blend_log, blend_vars, pass_vars, combined_mask>>

\* ------------------------------------------------------------------ a tiled pass
\* image[..., :3]: the alpha channel of a 4-channel image removed
remove_alpha(img, channels) ==
    IF channels = 4
    THEN Array(Rows(img), Cols(img), LAMBDA r, c: SubSeq(img.at[<<r, c>>], 1, 3))
    ELSE img

\* The pixels [row:(row + tile_size), col:(col + tile_size)] of the tile at
\* (tile_row, tile_col): their first row and column, and the membership test
\* tile_origin with the grid row and column exchanged
tile_origin_exchanged(tile_row, tile_col, size) == <<tile_col * size, tile_row * size>>

tile_origin(tile_row, tile_col, size) == <<tile_row * size, tile_col * size>>

in_tile(r, c, origin, size) ==
    /\ r >= origin[1] /\ r < origin[1] + size
    /\ c >= origin[2] /\ c < origin[2] + size

\* padded_mask[row:(row + tile_size), col:(col + tile_size)] = tile_mask
write_tile_mask(mask_array, tile_mask, tile_row, tile_col, size) ==
    LET origin == tile_origin(tile_row, tile_col, size)
    IN  Array(Rows(mask_array), Cols(mask_array),
              LAMBDA r, c:
                  IF in_tile(r, c, origin, size)
                  THEN tile_mask.at[<<r - origin[1], c - origin[2]>>]
                  ELSE mask_array.at[<<r, c>>])

\* The same assignment, counted: one more write for every pixel it assigns
count_tile_write(counts, tile_row, tile_col, size) ==
    LET origin == tile_origin(tile_row, tile_col, size)
    IN  Array(Rows(counts), Cols(counts),
              LAMBDA r, c:
                  counts.at[<<r, c>>] + (IF in_tile(r, c, origin, size) THEN 1 ELSE 0))

RECURSIVE count_tile_write_batch(_, _, _, _, _)
count_tile_write_batch(counts, n_masks, rc_batch, size, i) ==
    IF i > n_masks \/ i > Len(rc_batch) THEN counts
    ELSE count_tile_write_batch(
             count_tile_write(counts, rc_batch[i][1], rc_batch[i][2], size),
             n_masks, rc_batch, size, i + 1)

\* The loop position as (tile_row, tile_col) in a grid of n_cols tile columns:
\* rows outside, columns inside
tile_rc(pos, n_cols) == <<pos \div n_cols, pos % n_cols>>

\* One iteration of _segment_tiled_individually on the tile at loop position pos
individual_iteration(padded, segmenter, mask_array, pos) ==
    LET rc == tile_rc(pos, tiled_image_shape(padded, segmenter.tile_size)[2])
        tile == tiled_image_at(padded, segmenter.tile_size, rc[1], rc[2])
        tile_mask == segment(segmenter.model, tile)
    IN  write_tile_mask(mask_array, tile_mask, rc[1], rc[2], segmenter.tile_size)

\* _segment_tiled_individually from loop position pos to the end of the grid
RECURSIVE segment_tiled_individually(_, _, _, _)
segment_tiled_individually(padded, segmenter, mask_array, pos) ==
    LET counts == tiled_image_shape(padded, segmenter.tile_size)
    IN  IF pos >= counts[1] * counts[2] THEN mask_array
        ELSE segment_tiled_individually(
                 padded, segmenter, individual_iteration(padded, segmenter, mask_array, pos),
                 pos + 1)

\* The loop of _segment_tile_batch over zip(tile_mask_batch, tile_rc_batch), from pair i on
RECURSIVE write_tile_mask_batch(_, _, _, _, _)
write_tile_mask_batch(mask_array, tile_mask_batch, rc_batch, size, i) ==
    IF i > Len(tile_mask_batch) \/ i > Len(rc_batch) THEN mask_array
    ELSE write_tile_mask_batch(
             write_tile_mask(mask_array, tile_mask_batch[i], rc_batch[i][1], rc_batch[i][2], size),
             tile_mask_batch, rc_batch, size, i + 1)

\* ------------------------------------------------------------------ progress
\* Task._change_step_progress(step, total) of bsmu.vision: the task's progress_changed
\* carries the fraction step / total
change_step_progress(step, total) == Float(step, total)

\* Task._change_subtask_based_progress(finished_subtask_count, subtask_count,
\* subtask_progress) of bsmu.vision: the task's progress_changed carries
\* (finished_subtask_count + subtask_progress) / subtask_count
change_subtask_based_progress(finished, subtask_count, subtask_progress) ==
    FDiv(FAdd(FloatOfInt(finished), subtask_progress), FloatOfInt(subtask_count))

\* The blend run's slot with the count of the passes begun, not of those finished
multipass_on_subtask_progress_changed_begun(progress) ==
    change_subtask_based_progress(
        finished_subtask_count + 1, Len(profile_extra_pads_sequence(profile)), progress)

\* MultipassTiledSegmentationTask._on_segmentation_subtask_progress_changed
multipass_on_subtask_progress_changed(progress) ==
    change_subtask_based_progress(
        finished_subtask_count, Len(profile_extra_pads_sequence(profile)), progress)

\* MulticlassMultipassTiledSegmentationTask._on_segmentation_subtask_progress_changed
multiclass_on_subtask_progress_changed(progress) ==
    change_subtask_based_progress(
        class_finished_subtask_count, Len(segmentation_profiles), progress)

\* self._change_step_progress(self._segmented_tile_count, self._total_tile_count): the
\* pass reports, and its progress_changed runs the slot of the blend run, whose
\* progress_changed runs the slot of the multi-class task
report_step_progress(count) ==
    /\ step_progress' = Append(step_progress, <<count, total_tile_count>>)
    /\ progress_log' =
          Append(progress_log,
                 multiclass_on_subtask_progress_changed(
                     multipass_on_subtask_progress_changed(
                         change_step_progress(count, total_tile_count))))

\* The count raised by one for a batch
batch_count_increase_one(batch) == 1

\* self._segmented_tile_count += len(tile_batch)
batch_count_increase(batch) == Len(batch)

\* _segment_tile_batch: one batch inference, the tile masks written, the count raised,
\* both batch lists cleared
segment_tile_batch(batch, rc_batch) ==
    /\ padded_mask' = write_tile_mask_batch(
                          padded_mask,
                          segment_batch_without_postresize(profile.segmenter.model, batch),
                          rc_batch, tile_size, 1)
    /\ write_count' = count_tile_write_batch(write_count, Len(batch), rc_batch, tile_size, 1)
    /\ segmented_tile_count' = segmented_tile_count + batch_count_increase(batch)
    /\ report_step_progress(segmented_tile_count + batch_count_increase(batch))
    /\ segment_calls' = Append(segment_calls, [batched |-> TRUE, rcs |-> rc_batch, n |-> Len(batch)])
    /\ tile_batch' = <<>>
    /\ tile_rc_batch' = <<>>

\* The multi-class loop takes the next profile, creates its blend run and runs it up
\* to its loop (MulticlassMultipassTiledSegmentationTask lines 418-421, the blend run's
\* __init__ and lines 307-312 of _segment_multipass_tiled); a failed assertion leaves
\* the run, and the multi-class loop with it
start_class ==
    /\ pc = "classes"
    /\ class_iter < Len(segmentation_profiles)
    /\ class_finished_subtask_count' = class_iter
    /\ blend_log' = Append(blend_log, profile)
    /\ pass_iter' = 0
    /\ finished_subtask_count' = 0
    /\ mask' = None
    /\ weighted_mask' = None
    /\ weight_sum' = None
    /\ weight_sum_base' = None
    /\ pass_log' = <<>>
    /\ pc' = IF extra_pads_sequence_asserted(profile) THEN "passes" ELSE "failed"
    /\ UNCHANGED <<aux_vars, fault_vars, progress_log, request_vars, segmentation_profiles, class_iter, masks, pass_vars,
                   combined_mask>>

\* The blend loop takes the next offset pair, creates the pass with binarize_mask False
\* and runs _segment_tiled up to its tile loop
start_pass ==
    /\ pc = "passes"
    /\ pass_iter < Len(profile_extra_pads_sequence(profile))
    /\ LET pair == profile_extra_pads_sequence(profile)[pass_iter + 1]
           rgb == remove_alpha(image, image_channels)
           channels == IF image_channels = 4 THEN 3 ELSE image_channels
           padded == padded_image_to_tile(rgb, channels, tile_size, pair)
           counts == tiled_image_shape(padded.image, tile_size)
       IN  /\ finished_subtask_count' = pass_iter
           /\ extra_pads' = pair
           /\ binarize_mask' = FALSE
           /\ pass_log' = Append(pass_log, [extra_pads |-> pair, binarize_mask |-> FALSE])
           /\ padded_image' = padded.image
           /\ pads' = padded.pads
           /\ padded_mask' = Full(Rows(padded.image), Cols(padded.image),
                                  FloatOfInt(profile.mask_background_class))
           /\ write_count' = Full(Rows(padded.image), Cols(padded.image), 0)
           /\ tile_row_count' = counts[1]
           /\ tile_col_count' = counts[2]
           /\ total_tile_count' = counts[1] * counts[2]
    /\ segmented_tile_count' = 0
    /\ tile_pos' = 0
    /\ tile_batch' = <<>>
    /\ tile_rc_batch' = <<>>
    /\ segment_calls' = <<>>
    /\ step_progress' = <<>>
    /\ pc' = "tiles"
    /\ UNCHANGED <<aux_vars, fault_vars, progress_log, request_vars, class_vars, pass_iter, mask, weighted_mask, weight_sum,
                   weight_sum_base, combined_mask>>

\* One iteration of the loop of _segment_tiled_individually
segment_tile_individually ==
    /\ pc = "tiles"
    /\ batch_size = 1
    /\ tile_pos < total_tile_count
    /\ LET rc == tile_rc(tile_pos, tile_col_count)
       IN  /\ padded_mask' = individual_iteration(padded_image, profile.segmenter, padded_mask,
                                                  tile_pos)
           /\ write_count' = count_tile_write(write_count, rc[1], rc[2], tile_size)
           /\ segment_calls' = Append(segment_calls, [batched |-> FALSE, rcs |-> <<rc>>, n |-> 1])
    /\ segmented_tile_count' = segmented_tile_count + 1
    /\ report_step_progress(segmented_tile_count + 1)
    /\ tile_pos' = tile_pos + 1
    /\ UNCHANGED <<pc, aux_vars, fault_vars, request_vars, class_vars, blend_vars, extra_pads, binarize_mask,
                   padded_image, pads, tile_row_count, tile_col_count, total_tile_count,
                   tile_batch, tile_rc_batch, combined_mask>>

\* One iteration of the loop of _segment_tiled_in_batches: the tile is appended and a
\* full batch is segmented
segment_tile_in_batches ==
    /\ pc = "tiles"
    /\ batch_size # 1
    /\ tile_pos < total_tile_count
    /\ LET rc == tile_rc(tile_pos, tile_col_count)
           tile == tiled_image_at(padded_image, tile_size, rc[1], rc[2])
           batch == Append(tile_batch, tile)
           rc_batch == Append(tile_rc_batch, rc)
       IN  IF Len(batch) = batch_size
           THEN segment_tile_batch(batch, rc_batch)
           ELSE /\ tile_batch' = batch
                /\ tile_rc_batch' = rc_batch
                /\ UNCHANGED <<padded_mask, write_count, segmented_tile_count, segment_calls,
                               step_progress, progress_log>>
    /\ tile_pos' = tile_pos + 1
    /\ UNCHANGED <<pc, aux_vars, fault_vars, request_vars, class_vars, blend_vars, extra_pads, binarize_mask,
                   padded_image, pads, tile_row_count, tile_col_count, total_tile_count,
                   combined_mask>>

\* end_tile_loop without the segmentation of the remaining tiles
end_tile_loop_without_rest ==
    /\ pc = "tiles"
    /\ tile_pos = total_tile_count
    /\ pc' = "unpad"
    /\ UNCHANGED <<aux_vars, fault_vars, progress_log, request_vars, class_vars, blend_vars, extra_pads, binarize_mask,
                   padded_image, pads, tile_row_count, tile_col_count, total_tile_count,
                   tile_pos, combined_mask, padded_mask, write_count, segmented_tile_count,
                   segment_calls, tile_batch, tile_rc_batch, step_progress>>

\* end_tile_loop that segments tile_batch without testing that it holds a tile
end_tile_loop_untested ==
    /\ pc = "tiles"
    /\ tile_pos = total_tile_count
    /\ IF batch_size # 1
       THEN segment_tile_batch(tile_batch, tile_rc_batch)
       ELSE UNCHANGED <<padded_mask, write_count, segmented_tile_count, segment_calls,
                        tile_batch, tile_rc_batch, step_progress, progress_log>>
    /\ pc' = "unpad"
    /\ UNCHANGED <<aux_vars, fault_vars, request_vars, class_vars, blend_vars, extra_pads, binarize_mask,
                   padded_image, pads, tile_row_count, tile_col_count, total_tile_count,
                   tile_pos, combined_mask>>

\* The tile loop is exhausted; the batched path segments what is left in tile_batch
end_tile_loop ==
    /\ pc = "tiles"
    /\ tile_pos = total_tile_count
    /\ IF batch_size # 1 /\ tile_batch # <<>>
       THEN segment_tile_batch(tile_batch, tile_rc_batch)
       ELSE UNCHANGED <<padded_mask, write_count, segmented_tile_count, segment_calls,
                        tile_batch, tile_rc_batch, step_progress, progress_log>>
    /\ pc' = "unpad"
    /\ UNCHANGED <<aux_vars, fault_vars, request_vars, class_vars, blend_vars, extra_pads, binarize_mask,
                   padded_image, pads, tile_row_count, tile_col_count, total_tile_count,
                   tile_pos, combined_mask>>

\* (mask > threshold).astype(np.uint8) * foreground
binarize_array(mask_array, threshold, foreground) ==
    Array(Rows(mask_array), Cols(mask_array),
          LAMBDA r, c: (IF FGt(mask_array.at[<<r, c>>], threshold) THEN 1 ELSE 0) * foreground)

\* The end of _segment_tiled (lines 180-192): (mask, weights)
segment_tiled_result(binarize) ==
    LET unpadded == unpad_image(padded_mask, pads)
        padded_weights == np_tile(profile.tile_weights, <<tile_row_count, tile_col_count>>)
    IN  [mask |-> IF binarize
                  THEN binarize_array(unpadded, mask_binarization_threshold(profile.segmenter.model),
                                profile.mask_foreground_class)
                  ELSE unpadded,
         weights |-> unpad_image(padded_weights, pads)]

\* np.tile returning its argument itself when reps is (1, 1)
np_tile_base_of_single(reps) == IF reps = <<1, 1>> THEN "tile_weights" ELSE "pass"

\* The array that owns the memory of np.tile(tile_weights, reps): np.tile copies its
\* argument, for reps (1, 1) too, so the result is an array of the pass
np_tile_base(reps) == "pass"

\* weights of _segment_tiled as a view: _unpad_image slices padded_weights, so weights
\* shares its memory, from the leading pads on
mask_weights_base ==
    [owner |-> np_tile_base(<<tile_row_count, tile_col_count>>),
     origin |-> <<pads[1][1], pads[2][1]>>]

\* The array a after the in-place write of the values of written through a view of a
\* that starts at origin
written_through_view(a, origin, written) ==
    Array(Rows(a), Cols(a),
          LAMBDA r, c:
              IF /\ r >= origin[1] /\ r < origin[1] + Rows(written)
                 /\ c >= origin[2] /\ c < origin[2] + Cols(written)
              THEN written.at[<<r - origin[1], c - origin[2]>>]
              ELSE a.at[<<r, c>>])

\* The pass returns and the blend run accumulates its result (lines 325-332):
\* 'weight_sum = mask_weights' binds the first pass's weights themselves, and
\* 'weight_sum += mask_weights' writes into their memory
finish_pass ==
    /\ pc = "unpad"
    /\ LET result == segment_tiled_result(binarize_mask)
           mask_weights == result.weights
           sum == Map2(Get(weight_sum), mask_weights, FAdd)
       IN  /\ mask' = Some(result.mask)
           /\ IF Len(profile_extra_pads_sequence(profile)) > 1
              THEN IF weighted_mask = None
                   THEN /\ weighted_mask' = Some(Map2(result.mask, mask_weights, FMul))
                        /\ weight_sum' = Some(mask_weights)
                        /\ weight_sum_base' = Some(mask_weights_base)
                        /\ UNCHANGED segmentation_profiles
                   ELSE /\ weighted_mask' = Some(Map2(Get(weighted_mask),
                                                      Map2(result.mask, mask_weights, FMul), FAdd))
                        /\ weight_sum' = Some(sum)
                        /\ UNCHANGED weight_sum_base
                        /\ segmentation_profiles' =
                               IF Get(weight_sum_base).owner = "tile_weights"
                               THEN [segmentation_profiles EXCEPT ![class_iter + 1].tile_weights =
                                        written_through_view(profile.tile_weights,
                                                             Get(weight_sum_base).origin, sum)]
                               ELSE segmentation_profiles
              ELSE UNCHANGED <<weighted_mask, weight_sum, weight_sum_base, segmentation_profiles>>
    /\ pass_iter' = pass_iter + 1
    /\ pc' = "passes"
    /\ UNCHANGED <<aux_vars, fault_vars, progress_log, request_vars, class_iter,
                   class_finished_subtask_count, masks, blend_log, finished_subtask_count,
                   pass_log, pass_vars, combined_mask>>

\* The value _segment_multipass_tiled returns after its loop (lines 337-343)
blended_mask ==
    LET normalized == IF weighted_mask # None
                      THEN Map2(Get(weighted_mask), Get(weight_sum), FDiv)
                      ELSE Get(mask)
    IN  binarize_array(normalized, mask_binarization_threshold(profile.segmenter.model),
                 profile.mask_foreground_class)

\* The blend run returns and the multi-class loop appends its mask (lines 422-423)
finish_blend ==
    /\ pc = "passes"
    /\ pass_iter = Len(profile_extra_pads_sequence(profile))
    /\ masks' = Append(masks, blended_mask)
    /\ class_iter' = class_iter + 1
    /\ pc' = "classes"
    /\ UNCHANGED <<aux_vars, fault_vars, progress_log, request_vars, segmentation_profiles, class_finished_subtask_count,
                   blend_log, blend_vars, pass_vars, combined_mask>>

\* The multi-class task returns masks
finish_classes ==
    /\ pc = "classes"
    /\ class_iter = Len(segmentation_profiles)
    /\ pc' = "finished"
    /\ UNCHANGED <<aux_vars, fault_vars, progress_log, request_vars, class_vars, blend_vars, pass_vars, combined_mask>>

\* ------------------------------------------------------------------ combination
\* overlay_foreground that takes every pixel of the later mask
overlay_foreground_whole(combined, class_mask, foreground) == class_mask

\* combined_mask[class_mask == foreground] = foreground
overlay_foreground(combined, class_mask, foreground) ==
    Array(Rows(combined), Cols(combined),
          LAMBDA r, c: IF class_mask.at[<<r, c>>] = foreground
                       THEN foreground ELSE combined.at[<<r, c>>])

\* The loop of combine_class_masks over zip(class_masks[1:], class_segmenters[1:]),
\* from the i-th mask on
RECURSIVE combine_from(_, _, _, _)
combine_from(combined, class_masks, segmenters, i) ==
    IF i > Len(class_masks) \/ i > Len(segmenters) THEN combined
    ELSE combine_from(
             overlay_foreground(combined, class_masks[i], segmenters[i].mask_foreground_class),
             class_masks, segmenters, i + 1)

\* The first mask taken as it is, without copy(): combined_mask is class_masks[0] itself
first_mask_shared(class_masks) == [array |-> class_masks[1], shared |-> TRUE]

\* combined_mask = class_masks[0].copy(): a new array that holds the first mask's values
first_mask_copy(class_masks) == [array |-> class_masks[1], shared |-> FALSE]

combine_class_masks(class_masks, segmenters) ==
    combine_from(first_mask_copy(class_masks).array, class_masks, segmenters, 2)

\* The caller's class_masks after combine_class_masks(class_masks, segmenters): the
\* assignments of the loop go to combined_mask, which is class_masks[0] only when the
\* two share their buffer
class_masks_after_combine(class_masks, segmenters) ==
    IF first_mask_copy(class_masks).shared
    THEN [class_masks EXCEPT ![1] = combine_class_masks(class_masks, segmenters)]
    ELSE class_masks

\* PcaFileReadingAndSegmentationTask._read_and_segment line 139
combine ==
    /\ pc = "finished"
    /\ combined_mask' = Some(combine_class_masks(masks, class_segmenters))
    /\ masks' = class_masks_after_combine(masks, class_segmenters)
    /\ pc' = "done"
    /\ UNCHANGED <<aux_vars, fault_vars, progress_log, request_vars, segmentation_profiles, class_iter,
                   class_finished_subtask_count, blend_log, blend_vars, pass_vars>>

Next ==
    \/ create_segmentation_task
    \/ start_class
    \/ start_pass
    \/ segment_tile_individually
    \/ segment_tile_in_batches
    \/ end_tile_loop
    \/ finish_pass
    \/ finish_blend
    \/ finish_classes
    \/ combine

Spec == Init /\ [][Next]_vars

\* ------------------------------------------------------------------ faults
\* Largest image height and width that InitFaults draws.
MaxFaultDim == 2

\* Task cancellation: the flag _is_cancelled is set while the tile loop of a pass runs.
\* Neither loop reads it: the tests of lines 197-198 and 218-219 are comments.
cancel ==
    /\ pc = "tiles"
    /\ ~is_cancelled
    /\ is_cancelled' = TRUE
    /\ mask_at_cancel' = Some([padded_mask |-> padded_mask, class_iter |-> class_iter,
                               pass_iter |-> pass_iter])
    /\ UNCHANGED <<pc, aux_vars, raised, request_vars, class_vars, blend_vars, pass_vars, combined_mask,
                   progress_log>>

\* The Segmenter call the tile loop makes in its next step, None when that step makes
\* none (a batch that is not full yet, an empty rest)
next_segment_call ==
    IF tile_pos < total_tile_count
    THEN LET rc == tile_rc(tile_pos, tile_col_count)
         IN  IF batch_size = 1
             THEN Some([batched |-> FALSE, rcs |-> <<rc>>, n |-> 1])
             ELSE IF Len(tile_batch) + 1 = batch_size
                  THEN Some([batched |-> TRUE, rcs |-> Append(tile_rc_batch, rc),
                             n |-> batch_size])
                  ELSE None
    ELSE IF batch_size # 1 /\ tile_batch # <<>>
         THEN Some([batched |-> TRUE, rcs |-> tile_rc_batch, n |-> Len(tile_batch)])
         ELSE None

\* segmenter_raises with the exception caught in the tile loop: the pass goes on to
\* return its mask
segmenter_raises_caught ==
    /\ pc = "tiles"
    /\ next_segment_call # None
    /\ segment_calls' = Append(segment_calls, Get(next_segment_call))
    /\ raised' = TRUE
    /\ pc' = "unpad"
    /\ UNCHANGED <<aux_vars, is_cancelled, mask_at_cancel, request_vars, class_vars, blend_vars,
                   extra_pads, binarize_mask, padded_image, pads, padded_mask, write_count,
                   tile_row_count, tile_col_count, total_tile_count, segmented_tile_count,
                   tile_pos, tile_batch, tile_rc_batch, combined_mask, step_progress,
                   progress_log>>

\* segment_without_postresize or segment_batch_without_postresize raises: no statement
\* of the tile loops, of the blend loop or of the multi-class loop catches an
\* exception, so it leaves all three and the request's task
segmenter_raises ==
    /\ pc = "tiles"
    /\ next_segment_call # None
    /\ segment_calls' = Append(segment_calls, Get(next_segment_call))
    /\ raised' = TRUE
    /\ pc' = "failed"
    /\ UNCHANGED <<aux_vars, is_cancelled, mask_at_cancel, request_vars, class_vars, blend_vars,
                   extra_pads, binarize_mask, padded_image, pads, padded_mask, write_count,
                   tile_row_count, tile_col_count, total_tile_count, segmented_tile_count,
                   tile_pos, tile_batch, tile_rc_batch, combined_mask, step_progress,
                   progress_log>>

\* The requests of InitFaults: mode and class segmenters
FaultRequests(batch_size_of_model) ==
    { [segmentation_mode |-> "FAST",
       class_segmenters |-> <<ClassSegmenter("pixel", 2, batch_size_of_model, 0, 1)>>],
      [segmentation_mode |-> "HIGH_QUALITY",
       class_segmenters |-> <<ClassSegmenter("pixel", 2, batch_size_of_model, 0, 1)>>],
      [segmentation_mode |-> "FAST",
       class_segmenters |-> <<ClassSegmenter("ones", 2, batch_size_of_model, 0, 1),
                              ClassSegmenter("pixel", 2, batch_size_of_model, 0, 2)>>] }

\* Images of 1, 3 and 4 channels
FaultImages ==
    { [kind |-> "coded", channels |-> 1],
      [kind |-> "coded", channels |-> 3],
      [kind |-> "coded", channels |-> 4] }

InitFaults ==
    /\ pc = "start"
    /\ \E rows \in 1 .. MaxFaultDim, cols \in 1 .. MaxFaultDim, img \in FaultImages :
          /\ image = image_pixels(img.kind, rows, cols, img.channels)
          /\ image_channels = img.channels
    /\ \E bs \in 1 .. 2 : \E request \in FaultRequests(bs) :
          /\ segmentation_mode = request.segmentation_mode
          /\ class_segmenters = request.class_segmenters
    /\ segmentation_profiles = <<>>
    /\ class_iter = 0
    /\ class_finished_subtask_count = 0
    /\ masks = <<>>
    /\ blend_log = <<>>
    /\ pass_iter = 0
    /\ finished_subtask_count = 0
    /\ mask = None
    /\ weighted_mask = None
    /\ weight_sum = None
    /\ weight_sum_base = None
    /\ pass_log = <<>>
    /\ extra_pads = <<0, 0>>
    /\ binarize_mask = TRUE
    /\ padded_image = EmptyArray
    /\ pads = <<<<0, 0>>, <<0, 0>>>>
    /\ padded_mask = EmptyArray
    /\ write_count = Full(0, 0, 0)
    /\ tile_row_count = 0
    /\ tile_col_count = 0
    /\ total_tile_count = 0
    /\ segmented_tile_count = 0
    /\ tile_pos = 0
    /\ tile_batch = <<>>
    /\ tile_rc_batch = <<>>
    /\ segment_calls = <<>>
    /\ step_progress = <<>>
    /\ progress_log = <<>>
    /\ combined_mask = None
    /\ is_cancelled = FALSE
    /\ mask_at_cancel = None
    /\ raised = FALSE
    /\ InitAux

NextFaults ==
    \/ Next
    \/ cancel
    \/ segmenter_raises

SpecFaults == InitFaults /\ [][NextFaults]_vars

\* ------------------------------------------------------------------ supplied tile weights
\* MultipassTiledSegmentationProfile(..., tile_weights=w): tile weights the caller
\* supplies are kept as they are; here the map of zeros and the map of ones
SuppliedTileWeights(size) == {Full(size, size, FloatOfInt(0)), Full(size, size, FloatOfInt(1))}

\* The offset sequences of the profiles: None for the property of
\* MultipassTiledSegmentationProfile, the empty sequence and a sequence of two pairs for
\* profile objects that carry their own
SuppliedOffsets == {None, Some(<<>>), Some(<<<<0, 0>>, <<1, 1>>>>)}

\* The profile prof, with the sequence it carries when it carries one
WithOffsets(prof, offsets) ==
    IF offsets = None
    THEN prof
    ELSE [segmenter |-> prof.segmenter,
          segmentation_mode |-> prof.segmentation_mode,
          mask_background_class |-> prof.mask_background_class,
          mask_foreground_class |-> prof.mask_foreground_class,
          tile_weights |-> prof.tile_weights,
          extra_pads_sequence |-> Get(offsets)]

\* MulticlassMultipassTiledSegmentationTask(image, segmentation_profiles) with
\* HIGH_QUALITY profiles whose tile weights, and possibly offset sequence, the caller
\* supplied
InitProfiles ==
    /\ pc = "classes"
    /\ \E rows \in 1 .. MaxFaultDim, cols \in 1 .. MaxFaultDim :
          image = image_pixels("coded", rows, cols, 3)
    /\ image_channels = 3
    /\ segmentation_mode = "HIGH_QUALITY"
    /\ \E bs \in 1 .. 2, m \in {"ones", "pixel"} :
          class_segmenters = <<ClassSegmenter(m, 2, bs, 0, 1)>>
    /\ \E w \in SuppliedTileWeights(2), offsets \in SuppliedOffsets :
          segmentation_profiles =
              [i \in 1 .. Len(class_segmenters) |->
                  WithOffsets([MultipassTiledSegmentationProfile(class_segmenters[i],
                                                                 segmentation_mode)
                                  EXCEPT !.tile_weights = w], offsets)]
    /\ class_iter = 0
    /\ class_finished_subtask_count = 0
    /\ masks = <<>>
    /\ blend_log = <<>>
    /\ pass_iter = 0
    /\ finished_subtask_count = 0
    /\ mask = None
    /\ weighted_mask = None
    /\ weight_sum = None
    /\ weight_sum_base = None
    /\ pass_log = <<>>
    /\ extra_pads = <<0, 0>>
    /\ binarize_mask = TRUE
    /\ padded_image = EmptyArray
    /\ pads = <<<<0, 0>>, <<0, 0>>>>
    /\ padded_mask = EmptyArray
    /\ write_count = Full(0, 0, 0)
    /\ tile_row_count = 0
    /\ tile_col_count = 0
    /\ total_tile_count = 0
    /\ segmented_tile_count = 0
    /\ tile_pos = 0
    /\ tile_batch = <<>>
    /\ tile_rc_batch = <<>>
    /\ segment_calls = <<>>
    /\ step_progress = <<>>
    /\ progress_log = <<>>
    /\ combined_mask = None
    /\ is_cancelled = FALSE
    /\ mask_at_cancel = None
    /\ raised = FALSE
    /\ InitAux

NextProfiles ==
    \/ start_class
    \/ start_pass
    \/ segment_tile_individually
    \/ segment_tile_in_batches
    \/ end_tile_loop
    \/ finish_pass
    \/ finish_blend
    \/ finish_classes
    \/ combine

SpecProfiles == InitProfiles /\ [][NextProfiles]_vars

\* ------------------------------------------------------------------ no request
\* No segmentation request: the variables of a request at rest
InitIdle ==
    /\ pc = "idle"
    /\ image = image_pixels("uniform", 1, 1, 3)
    /\ image_channels = 3
    /\ segmentation_mode = "FAST"
    /\ class_segmenters = <<>>
    /\ segmentation_profiles = <<>>
    /\ class_iter = 0
    /\ class_finished_subtask_count = 0
    /\ masks = <<>>
    /\ blend_log = <<>>
    /\ pass_iter = 0
    /\ finished_subtask_count = 0
    /\ mask = None
    /\ weighted_mask = None
    /\ weight_sum = None
    /\ weight_sum_base = None
    /\ pass_log = <<>>
    /\ extra_pads = <<0, 0>>
    /\ binarize_mask = TRUE
    /\ padded_image = EmptyArray
    /\ pads = <<<<0, 0>>, <<0, 0>>>>
    /\ padded_mask = EmptyArray
    /\ write_count = Full(0, 0, 0)
    /\ tile_row_count = 0
    /\ tile_col_count = 0
    /\ total_tile_count = 0
    /\ segmented_tile_count = 0
    /\ tile_pos = 0
    /\ tile_batch = <<>>
    /\ tile_rc_batch = <<>>
    /\ segment_calls = <<>>
    /\ step_progress = <<>>
    /\ progress_log = <<>>
    /\ combined_mask = None
    /\ is_cancelled = FALSE
    /\ mask_at_cancel = None
    /\ raised = FALSE

\* ------------------------------------------------------------------ offsets of any number type
\* A Python number: an int, or a float (is_float) with its value as a fraction
PyInt(n) == [is_float |-> FALSE, value |-> FloatOfInt(n)]
PyFloat(x) == [is_float |-> TRUE, value |-> x]

\* a + b and a * b: the result is a float when an operand is
py_add(a, b) == [is_float |-> a.is_float \/ b.is_float, value |-> FAdd(a.value, b.value)]
py_mul(a, b) == [is_float |-> a.is_float \/ b.is_float, value |-> FMul(a.value, b.value)]
py_sub(a, b) ==
    [is_float |-> a.is_float \/ b.is_float,
     value |-> FAdd(a.value, FMul(FloatOfInt(-1), b.value))]

\* a // k for an int k > 0: the floor of the quotient, a float when a is
py_floordiv(a, k) ==
    [is_float |-> a.is_float, value |-> FloatOfInt(a.value[1] \div (a.value[2] * k))]

\* The pads of _padded_image_to_tile as Python computes them from extra_pads of any
\* number type
py_image_pads(rows, cols, size, offsets) ==
    LET pad_rows == py_add(PyInt((-rows) % size), py_mul(offsets[1], PyInt(size)))
        pad_cols == py_add(PyInt((-cols) % size), py_mul(offsets[2], PyInt(size)))
        pad_rows_half == py_floordiv(pad_rows, 2)
        pad_cols_half == py_floordiv(pad_cols, 2)
    IN  <<<<pad_rows_half, py_sub(pad_rows, pad_rows_half)>>,
          <<pad_cols_half, py_sub(pad_cols, pad_cols_half)>>>>

\* np.pad raises TypeError ('`pad_width` must be of integral type') unless the array
\* of the pad widths has an integer dtype: one float among them makes it a float array
np_pad_accepts(p) ==
    \A axis \in 1 .. 2, side \in 1 .. 2 : ~p[axis][side].is_float

\* skimage.util.view_as_blocks raises ValueError unless the block shape divides the
\* array shape
view_as_blocks_accepts(rows, cols, size) == rows % size = 0 /\ cols % size = 0

\* _padded_image_to_tile(image, tile_size, extra_pads) followed by _tiled_image, for an
\* image of rows x cols pixels: the error raised, or the padded shape and the tile grid
padded_and_tiled(rows, cols, size, offsets) ==
    LET p == py_image_pads(rows, cols, size, offsets)
        padded_rows == rows + p[1][1].value[1] + p[1][2].value[1]
        padded_cols == cols + p[2][1].value[1] + p[2][2].value[1]
    IN  IF ~np_pad_accepts(p)
        THEN [error |-> "TypeError", shape |-> <<0, 0>>, tiles |-> <<0, 0>>]
        ELSE IF ~view_as_blocks_accepts(padded_rows, padded_cols, size)
             THEN [error |-> "ValueError", shape |-> <<padded_rows, padded_cols>>,
                   tiles |-> <<0, 0>>]
             ELSE [error |-> "", shape |-> <<padded_rows, padded_cols>>,
                   tiles |-> <<padded_rows \div size, padded_cols \div size>>]

\* The offset components of the calls: the ints 0 and 1, the floats 0.5, 1.0 and 1.5
OffsetComponents ==
    {PyInt(0), PyInt(1), PyFloat(Float(1, 2)), PyFloat(FloatOfInt(1)), PyFloat(Float(3, 2))}

InitOffsets ==
    /\ InitIdle
    /\ \E rows \in 1 .. MaxDim, cols \in 1 .. MaxDim, size \in {2, 4},
          e1 \in OffsetComponents, e2 \in OffsetComponents :
          pad_call = Some([rows |-> rows, cols |-> cols, tile_size |-> size,
                           extra_pads |-> <<e1, e2>>])
    /\ pad_result = None
    /\ NoGuiRequest
    /\ NoDirRun
    /\ NoConcurrentRequests

\* A tiled pass pads and tiles its image
pad_and_tile ==
    /\ pad_call # None
    /\ pad_result = None
    /\ pad_result' = Some(padded_and_tiled(Get(pad_call).rows, Get(pad_call).cols,
                                           Get(pad_call).tile_size, Get(pad_call).extra_pads))
    /\ UNCHANGED <<core_vars, pad_call, gui_vars, dir_vars, concurrent_vars>>

SpecOffsets == InitOffsets /\ [][pad_and_tile]_vars

\* ------------------------------------------------------------------ properties
\* The states in which a tiled pass of the running blend run exists
InPass == pc \in {"tiles", "unpad"}

Threshold(prof) == mask_binarization_threshold(prof.segmenter.model)

\* The padded raw mask as np.full leaves it, before any tile is written
BackgroundMask ==
    Full(Rows(padded_image), Cols(padded_image), FloatOfInt(profile.mask_background_class))

\* C1: the mask a tiled pass returns, binarized or not, and the weight map it returns
\* have exactly the rows and columns of the input image, for every image (also one
\* smaller than the tile), tile size and offset pair of the mode sequences.
C1_OutputShape ==
    pc = "unpad" =>
        \A b \in BOOLEAN :
            /\ segment_tiled_result(b).mask.shape = image.shape
            /\ segment_tiled_result(b).weights.shape = image.shape

C1_Witness ==
    /\ pc = "unpad"
    /\ Rows(image) < tile_size
    /\ Cols(image) < tile_size
    /\ extra_pads = <<1, 1>>
    /\ segment_tiled_result(FALSE).mask.shape = image.shape
    /\ segment_tiled_result(FALSE).weights.shape = image.shape

\* C2: in HIGH_QUALITY mode, once the weight maps of all four passes are accumulated,
\* weight_sum is strictly positive at every pixel, for every image size and every even
\* tile size.
C2_WeightSumPositive ==
    ( /\ pc = "passes"
      /\ profile.segmentation_mode = "HIGH_QUALITY"
      /\ pass_iter = 4 ) =>
        \A q \in Index(Rows(image), Cols(image)) :
            FGt(Get(weight_sum).at[q], FloatOfInt(0))

\* C3: every pixel of a class mask returned by a blend run is the background class id
\* or the foreground class id of its profile.
C3_ClassMaskValues ==
    \A i \in 1 .. Len(masks) :
        \A q \in Index(Rows(image), Cols(image)) :
            masks[i].at[q] \in {segmentation_profiles[i].mask_background_class,
                                segmentation_profiles[i].mask_foreground_class}

\* C4: each pixel of combine_class_masks(masks) is the foreground id of the last class
\* after the first whose mask holds its own foreground id there, and the first mask's
\* value when there is no such class; a later mask's background changes nothing.
LaterForeground(q) ==
    {i \in 2 .. Len(masks) : masks[i].at[q] = class_segmenters[i].mask_foreground_class}

Last(S) == CHOOSE i \in S : \A j \in S : j <= i

C4_CombinedMask ==
    pc = "done" =>
        /\ Get(combined_mask).shape = masks[1].shape
        /\ \A q \in Index(Rows(masks[1]), Cols(masks[1])) :
              Get(combined_mask).at[q] =
                  IF LaterForeground(q) = {}
                  THEN masks[1].at[q]
                  ELSE class_segmenters[Last(LaterForeground(q))].mask_foreground_class

C4_Witness ==
    /\ pc = "done"
    /\ Len(masks) = 3
    /\ masks[1].at[<<0, 0>>] = 1
    /\ masks[2].at[<<0, 0>>] = 2
    /\ masks[3].at[<<0, 0>>] = 0
    /\ Get(combined_mask).at[<<0, 0>>] = 2
    /\ masks[1].at[<<0, 1>>] = 1
    /\ masks[2].at[<<0, 1>>] = 0
    /\ Get(combined_mask).at[<<0, 1>>] = 1

\* C5: with a Segmenter whose batch inference returns the single-tile masks in order,
\* the padded raw mask of the batched path equals the one the per-item path produces,
\* for every tile grid and batch size >= 2 (dividing the tile count or not, larger
\* than it or not); the per-item runs produce that mask too.
C5_BatchedEqualsIndividual ==
    pc = "unpad" =>
        padded_mask = segment_tiled_individually(padded_image, profile.segmenter,
                                                 BackgroundMask, 0)

C5_Witness ==
    /\ pc = "unpad"
    /\ batch_size >= 2
    /\ total_tile_count > batch_size
    /\ total_tile_count % batch_size # 0
    /\ padded_mask # BackgroundMask
    /\ padded_mask = segment_tiled_individually(padded_image, profile.segmenter,
                                                BackgroundMask, 0)

\* C6: in the batched path every tile is passed to batch inference exactly once, in
\* row-major order: the tiles of the calls so far followed by those waiting in
\* tile_batch are the tiles the loop has taken, every batch sent before the loop ends
\* is full, the one sent after it holds 1..batch_size tiles, none is empty, and
\* tile_batch holds the tiles at the positions of tile_rc_batch.
RECURSIVE CalledTiles(_)
CalledTiles(calls) ==
    IF calls = <<>> THEN <<>>
    ELSE CalledTiles(SubSeq(calls, 1, Len(calls) - 1)) \o calls[Len(calls)].rcs

C6_BatchesCoverTiles ==
    (InPass /\ batch_size # 1) =>
        /\ CalledTiles(segment_calls) \o tile_rc_batch =
              [i \in 1 .. tile_pos |-> tile_rc(i - 1, tile_col_count)]
        /\ Len(tile_batch) = Len(tile_rc_batch)
        /\ Len(tile_batch) < batch_size
        /\ \A i \in 1 .. Len(tile_batch) :
              tile_batch[i] = tiled_image_at(padded_image, tile_size,
                                             tile_rc_batch[i][1], tile_rc_batch[i][2])
        /\ \A i \in 1 .. Len(segment_calls) :
              /\ segment_calls[i].batched
              /\ segment_calls[i].n = Len(segment_calls[i].rcs)
              /\ segment_calls[i].n >= 1
              /\ segment_calls[i].n <= batch_size
              /\ (i < Len(segment_calls) \/ pc = "tiles") => segment_calls[i].n = batch_size
        /\ pc = "unpad" =>
              /\ tile_batch = <<>>
              /\ tile_pos = tile_row_count * tile_col_count

C6_Witness ==
    /\ pc = "unpad"
    /\ batch_size >= 2
    /\ Len(segment_calls) >= 2
    /\ segment_calls[Len(segment_calls)].n < batch_size
    /\ Len(CalledTiles(segment_calls)) = total_tile_count

\* C7: unpadding the padded image with the pad descriptor _padded_image_to_tile
\* returned gives back the image (without its alpha channel) pixel for pixel, also
\* when a leading or trailing pad amount is 0.
C7_UnpadInvertsPad ==
    InPass => unpad_image(padded_image, pads) = remove_alpha(image, image_channels)

C7_Witness ==
    /\ pc = "tiles"
    /\ pads[1] = <<0, 1>>
    /\ pads[2] = <<0, 0>>
    /\ image.at[<<0, 0>>] # image.at[<<0, 1>>]
    /\ unpad_image(padded_image, pads) = remove_alpha(image, image_channels)

\* C8: after a complete pass every pixel of the padded raw mask has been written
\* exactly once, and the tile at grid position (r, c) holds the Segmenter's result for
\* that tile in rows r*T..(r+1)*T-1 and columns c*T..(c+1)*T-1.
C8_TilesPlacedOnce ==
    pc = "unpad" =>
        /\ Rows(padded_mask) = tile_row_count * tile_size
        /\ Cols(padded_mask) = tile_col_count * tile_size
        /\ \A q \in Index(Rows(padded_mask), Cols(padded_mask)) : write_count.at[q] = 1
        /\ \A r \in 0 .. tile_row_count - 1, c \in 0 .. tile_col_count - 1 :
              \A q \in Index(tile_size, tile_size) :
                  padded_mask.at[<<r * tile_size + q[1], c * tile_size + q[2]>>] =
                      segment(profile.segmenter.model,
                              tiled_image_at(padded_image, tile_size, r, c)).at[q]

C8_Witness ==
    /\ pc = "unpad"
    /\ tile_row_count = 2
    /\ tile_col_count = 3
    /\ \A q \in Index(Rows(padded_mask), Cols(padded_mask)) : write_count.at[q] = 1

\* C9: a blend run creates one tiled pass per offset pair of its mode, in the order
\* (0,0), (1,1), (1,0), (0,1) for HIGH_QUALITY and (0,0) alone for FAST, each with
\* binarize_mask false, so each pass returns its raw mask; the threshold is applied
\* after the last pass, and with a single pass nothing is weighted or normalised: the
\* class mask is the foreground id where that pass's raw mask exceeds the threshold
\* and 0 elsewhere.
ModeOffsets(mode) ==
    IF mode = "HIGH_QUALITY" THEN <<<<0, 0>>, <<1, 1>>, <<1, 0>>, <<0, 1>>>> ELSE <<<<0, 0>>>>

C9_PassesInOrder ==
    /\ pc \in {"passes", "tiles", "unpad"} =>
          /\ Len(pass_log) = pass_iter + (IF InPass THEN 1 ELSE 0)
          /\ Len(pass_log) <= Len(ModeOffsets(segmentation_mode))
          /\ \A i \in 1 .. Len(pass_log) :
                pass_log[i] = [extra_pads |-> ModeOffsets(segmentation_mode)[i],
                               binarize_mask |-> FALSE]
          /\ (pc = "passes" /\ pass_iter > 0) => Get(mask) = unpad_image(padded_mask, pads)
    /\ (pc = "classes" /\ class_iter > 0) =>
          /\ Len(pass_log) = Len(ModeOffsets(segmentation_mode))
          /\ Len(masks) = class_iter
          /\ segmentation_mode = "FAST" =>
                /\ weighted_mask = None
                /\ weight_sum = None
                /\ \A q \in Index(Rows(image), Cols(image)) :
                      masks[class_iter].at[q] =
                          IF FGt(unpad_image(padded_mask, pads).at[q],
                                 Threshold(segmentation_profiles[class_iter]))
                          THEN segmentation_profiles[class_iter].mask_foreground_class
                          ELSE 0

C9_Witness ==
    /\ pc = "classes"
    /\ class_iter = 2
    /\ segmentation_mode = "HIGH_QUALITY"
    /\ Len(pass_log) = 4
    /\ pass_log[2].extra_pads = <<1, 1>>
    /\ \E q \in Index(Rows(image), Cols(image)) : masks[2].at[q] = 2

\* C10: FAST and HIGH_QUALITY runs of one profile on a uniform image return the same
\* final mask.  The FAST run's mask is the threshold of the single pass at offset (0,0).
IsUniform(img) == \A q1, q2 \in Index(Rows(img), Cols(img)) : img.at[q1] = img.at[q2]

fast_mask(prof) ==
    LET rgb == remove_alpha(image, image_channels)
        channels == IF image_channels = 4 THEN 3 ELSE image_channels
        padded == padded_image_to_tile(rgb, channels, prof.segmenter.tile_size, <<0, 0>>)
        raw == segment_tiled_individually(
                   padded.image, prof.segmenter,
                   Full(Rows(padded.image), Cols(padded.image),
                        FloatOfInt(prof.mask_background_class)), 0)
    IN  binarize_array(unpad_image(raw, padded.pads), Threshold(prof),
                       prof.mask_foreground_class)

\* What fast_mask stands for: the class masks of the FAST runs
FastRunsReturnFastMask ==
    (pc = "finished" /\ segmentation_mode = "FAST") =>
        \A i \in 1 .. Len(masks) : masks[i] = fast_mask(segmentation_profiles[i])

C10_FastEqualsHighQuality ==
    (pc = "finished" /\ segmentation_mode = "HIGH_QUALITY" /\ IsUniform(image)) =>
        \A i \in 1 .. Len(masks) : masks[i] = fast_mask(segmentation_profiles[i])

\* C10 with tile size 2 set aside: the Segmenter's answer may still depend on where a
\* pixel lies in its tile, and that place differs between the grid alignments
C10_FromTileSize4 ==
    ( /\ pc = "finished" /\ segmentation_mode = "HIGH_QUALITY" /\ IsUniform(image)
      /\ \A i \in 1 .. Len(masks) : segmentation_profiles[i].segmenter.tile_size >= 4 ) =>
        \A i \in 1 .. Len(masks) : masks[i] = fast_mask(segmentation_profiles[i])

\* C2 from tile size 4 on, where max_int_weight is not 0
WeightSumPositiveFromTileSize4 ==
    ( /\ pc = "passes"
      /\ profile.segmentation_mode = "HIGH_QUALITY"
      /\ pass_iter = 4
      /\ tile_size >= 4 ) =>
        \A q \in Index(Rows(image), Cols(image)) :
            FGt(Get(weight_sum).at[q], FloatOfInt(0))

\* C11: for every even tile size T the generated weight map is T x T, holds
\* min(distance to the nearest left/right edge, distance to the nearest top/bottom
\* edge) / (T/2 - 1) at every pixel, is 0 on the border, has maximum 1 at the centre,
\* lies in [0, 1] and is unchanged by a rotation of 90 degrees.
EdgeDistance(size, i) == IF i < size - 1 - i THEN i ELSE size - 1 - i

\* np.rot90 of a square array
Rot90(a) == Array(Cols(a), Rows(a), LAMBDA r, c: a.at[<<c, Cols(a) - 1 - r>>])

InUnitInterval(x) ==
    /\ ~IsNaN(x)
    /\ ~FGt(x, FloatOfInt(1))
    /\ ~FGt(FloatOfInt(0), x)

WeightMapAsStated(size, w) ==
    /\ w.shape = <<size, size>>
    /\ \A q \in Index(size, size) :
          /\ InUnitInterval(w.at[q])
          /\ (q[1] \in {0, size - 1} \/ q[2] \in {0, size - 1}) => w.at[q] = FloatOfInt(0)
          /\ (size > 2) =>
                LET dr == EdgeDistance(size, q[1])
                    dc == EdgeDistance(size, q[2])
                IN  w.at[q] = Float(IF dr < dc THEN dr ELSE dc, (size \div 2) - 1)
    /\ w.at[<<size \div 2, size \div 2>>] = FloatOfInt(1)
    /\ Rot90(w) = w

C11_TileWeights ==
    \A i \in 1 .. Len(segmentation_profiles) :
        (segmentation_profiles[i].segmenter.tile_size % 2 = 0) =>
            WeightMapAsStated(segmentation_profiles[i].segmenter.tile_size,
                              segmentation_profiles[i].tile_weights)

\* C11 from tile size 4 on, where max_int_weight is not 0
C11_FromTileSize4 ==
    /\ \A i \in 1 .. Len(segmentation_profiles) :
          (/\ segmentation_profiles[i].segmenter.tile_size % 2 = 0
           /\ segmentation_profiles[i].segmenter.tile_size >= 4) =>
              WeightMapAsStated(segmentation_profiles[i].segmenter.tile_size,
                                segmentation_profiles[i].tile_weights)
    /\ pc = "start" => \A size \in {4, 6, 8} : WeightMapAsStated(size, tile_weights(size))

\* C12: the weight generator fails for every odd tile size, and a request whose model
\* has an odd tile size fails while its profiles are built: no profile exists, no pass
\* is created, no tile is sent to the Segmenter and no mask is produced.
C12_OddTileSizeFails ==
    /\ \A size \in 1 .. 9 : (size % 2 = 1) => ~tile_weights_precondition(size)
    /\ (\E i \in 1 .. Len(class_segmenters) : class_segmenters[i].tile_size % 2 = 1) =>
          /\ pc \in {"start", "failed"}
          /\ segmentation_profiles = <<>>
          /\ pass_log = <<>>
          /\ segment_calls = <<>>
          /\ masks = <<>>
          /\ combined_mask = None

C12_Witness ==
    /\ pc = "failed"
    /\ class_segmenters[1].tile_size = 3
    /\ segmentation_profiles = <<>>
    /\ pass_log = <<>>

\* C13: combine_class_masks is pure: the call leaves every input class mask and the
\* class segmenters as they were (the loop writes into a copy of the first mask), and
\* a second call on the same inputs returns the mask the first call returned.
C13_CombinePure ==
    [][(pc = "finished" /\ pc' = "done") =>
          /\ masks' = masks
          /\ class_segmenters' = class_segmenters
          /\ segmentation_profiles' = segmentation_profiles
          /\ combined_mask' = Some(combine_class_masks(masks', class_segmenters'))]_vars

C13_Witness ==
    /\ pc = "done"
    /\ Len(masks) = 3
    /\ Get(combined_mask) # masks[1]
    /\ masks[1].at[<<0, 0>>] = 1
    /\ Get(combined_mask).at[<<0, 0>>] = 3
    /\ Get(combined_mask) = combine_class_masks(masks, class_segmenters)

\* C14: a multi-class run creates one blend run per profile, in the order of the
\* profiles, and returns one mask per profile, mask i being the one the blend run of
\* profile i produced; profile i carries the foreground id of class segmenter i, with
\* which combine_class_masks pairs mask i.
C14_MaskPerProfileInOrder ==
    /\ pc \in {"classes", "passes", "tiles", "unpad", "finished", "done"} =>
          /\ Len(segmentation_profiles) = Len(class_segmenters)
          /\ \A i \in 1 .. Len(segmentation_profiles) :
                segmentation_profiles[i].mask_foreground_class =
                    class_segmenters[i].mask_foreground_class
          /\ Len(blend_log) = class_iter + (IF pc \in {"passes", "tiles", "unpad"} THEN 1 ELSE 0)
          /\ blend_log = SubSeq(segmentation_profiles, 1, Len(blend_log))
          /\ Len(masks) = class_iter
          /\ \A i \in 1 .. Len(masks) :
                \A q \in Index(Rows(image), Cols(image)) :
                    masks[i].at[q] \in {0, segmentation_profiles[i].mask_foreground_class}
    /\ pc = "finished" =>
          /\ Len(masks) = Len(segmentation_profiles)
          /\ blend_log = segmentation_profiles
          /\ segmentation_mode = "FAST" =>
                \A i \in 1 .. Len(masks) : masks[i] = fast_mask(segmentation_profiles[i])

C14_Witness ==
    /\ pc = "finished"
    /\ Len(masks) = 2
    /\ blend_log = segmentation_profiles
    /\ segmentation_profiles[1].segmenter.model # segmentation_profiles[2].segmenter.model
    /\ masks[1] = fast_mask(segmentation_profiles[1])
    /\ masks[2] = fast_mask(segmentation_profiles[2])
    /\ \E q \in Index(Rows(image), Cols(image)) : masks[1].at[q] = 1 /\ masks[2].at[q] = 0
    /\ \E q \in Index(Rows(image), Cols(image)) : masks[2].at[q] = 2

\* C15: once the request is cancelled between two iterations of a tile loop, the pass
\* stops: its padded raw mask stays as it was at that moment, the model output in the
\* tiles written before and the background class value in all others.
C15_CancelStopsPass ==
    ( /\ is_cancelled
      /\ InPass
      /\ Get(mask_at_cancel).class_iter = class_iter
      /\ Get(mask_at_cancel).pass_iter = pass_iter ) =>
        padded_mask = Get(mask_at_cancel).padded_mask

\* C16: when the weight total that all passes of a blend run have accumulated is zero
\* at some pixel, the blend run returns no mask: it is still before its normalisation,
\* or it has failed.
C16_ZeroWeightTotalFails ==
    ( /\ weight_sum # None
      /\ pass_iter = Len(extra_pads_sequence(segmentation_mode))
      /\ \E q \in Index(Rows(image), Cols(image)) : Get(weight_sum).at[q] = FloatOfInt(0) ) =>
        pc \in {"passes", "failed"}

\* C17: an image whose channel count is neither 3 nor 4 is not accepted by the tiled
\* pass: no tile of it is sent to the Segmenter and no mask is produced; of a
\* 4-channel image the pass pads and tiles the first three channels, unchanged.
C17_ChannelCountChecked ==
    /\ (image_channels \notin {3, 4}) =>
          /\ segment_calls = <<>>
          /\ masks = <<>>
          /\ combined_mask = None
    /\ (image_channels = 4 /\ InPass) =>
          /\ \A q \in Index(Rows(padded_image), Cols(padded_image)) :
                Len(padded_image.at[q]) = 3
          /\ \A q \in Index(Rows(image), Cols(image)) :
                unpad_image(padded_image, pads).at[q] = SubSeq(image.at[q], 1, 3)

\* The second part of C17 alone
FourthChannelDropped ==
    (image_channels = 4 /\ InPass) =>
        /\ \A q \in Index(Rows(padded_image), Cols(padded_image)) :
              Len(padded_image.at[q]) = 3
        /\ \A q \in Index(Rows(image), Cols(image)) :
              unpad_image(padded_image, pads).at[q] = SubSeq(image.at[q], 1, 3)

\* C18: once the Segmenter has raised in a tile or batch of any pass of any class, the
\* request has failed: no step of it is taken any more (no later tile, pass or class
\* runs) and nothing is returned, neither the masks of the classes that had finished
\* nor a combined mask.
C18_SegmenterErrorAborts ==
    raised =>
        /\ pc = "failed"
        /\ combined_mask = None
        /\ ~ENABLED NextFaults

C18_Witness ==
    /\ raised
    /\ pc = "failed"
    /\ class_iter = 1
    /\ Len(masks) = 1
    /\ Len(segment_calls) = 1
    /\ segment_calls[1].batched
    /\ combined_mask = None

\* The Segmenter raises in a later pass of a blend run
RaisedInLaterPass ==
    /\ raised
    /\ pc = "failed"
    /\ pass_iter = 2
    /\ weighted_mask # None

\* C19: within a tiled pass the segmented-tile count is 0 before the first Segmenter
\* call and grows by 1 with every tile of the per-item path and by the length of the
\* batch with every batch of the batched path; it never exceeds the total tile count,
\* tile rows x tile columns, and equals it when the pass finishes.  After every such
\* increase one progress step (count, total) is reported, so the reported fractions
\* lie in [0, 1] and increase strictly.
RECURSIVE TilesOfCalls(_, _)
TilesOfCalls(calls, i) == IF i = 0 THEN 0 ELSE TilesOfCalls(calls, i - 1) + calls[i].n

C19_TileCountAndSteps ==
    InPass =>
        /\ total_tile_count = tile_row_count * tile_col_count
        /\ segmented_tile_count >= 0
        /\ segmented_tile_count <= total_tile_count
        /\ segmented_tile_count = TilesOfCalls(segment_calls, Len(segment_calls))
        /\ \A i \in 1 .. Len(segment_calls) :
              segment_calls[i].n = IF segment_calls[i].batched
                                   THEN Len(segment_calls[i].rcs) ELSE 1
        /\ Len(step_progress) = Len(segment_calls)
        /\ \A i \in 1 .. Len(step_progress) :
              /\ step_progress[i] = <<TilesOfCalls(segment_calls, i), total_tile_count>>
              /\ InUnitInterval(change_step_progress(step_progress[i][1], step_progress[i][2]))
              /\ i > 1 =>
                    FGt(change_step_progress(step_progress[i][1], step_progress[i][2]),
                        change_step_progress(step_progress[i - 1][1], step_progress[i - 1][2]))
        /\ pc = "unpad" =>
              /\ segmented_tile_count = total_tile_count
              /\ step_progress[Len(step_progress)] = <<total_tile_count, total_tile_count>>

C19_Witness ==
    /\ pc = "unpad"
    /\ batch_size = 2
    /\ total_tile_count = 3
    /\ step_progress = <<<<2, 3>>, <<3, 3>>>>
    /\ segmented_tile_count = 3

\* The per-item path reports after every tile
StepsOfIndividualPath ==
    /\ pc = "unpad"
    /\ batch_size = 1
    /\ step_progress = <<<<1, 4>>, <<2, 4>>, <<3, 4>>, <<4, 4>>>>

\* C20: every progress value the request reports is the pass's fraction composed with
\* the index and number of the passes of the running blend run, and that composed with
\* the index and number of the classes: (class index + (pass index + count / total) /
\* passes) / classes.  The values lie in [0, 1], never decrease, and the value is 1
\* with the last tile of the last pass of the last class and not before.
ComposedProgress(class_index, pass_index, step) ==
    LET passes == Len(ModeOffsets(segmentation_mode))
        classes == Len(segmentation_profiles)
    IN  Float((class_index * passes + pass_index) * step[2] + step[1],
              classes * passes * step[2])

C20_ComposedProgress ==
    /\ \A i \in 1 .. Len(progress_log) :
          /\ InUnitInterval(progress_log[i])
          /\ i > 1 => ~FGt(progress_log[i - 1], progress_log[i])
          /\ i < Len(progress_log) => progress_log[i] # FloatOfInt(1)
    /\ (InPass /\ step_progress # <<>>) =>
          progress_log[Len(progress_log)] =
              ComposedProgress(class_iter, pass_iter, step_progress[Len(step_progress)])
    /\ (InPass /\ step_progress = <<>>) =>
          \A i \in 1 .. Len(progress_log) :
              FGt(ComposedProgress(class_iter, pass_iter, <<1, total_tile_count>>),
                  progress_log[i])
    /\ pc = "finished" =>
          /\ progress_log # <<>>
          /\ progress_log[Len(progress_log)] = FloatOfInt(1)

C20_Witness ==
    /\ pc = "finished"
    /\ segmentation_mode = "HIGH_QUALITY"
    /\ Len(segmentation_profiles) = 2
    /\ Len(progress_log) >= 8
    /\ progress_log[Len(progress_log)] = FloatOfInt(1)
    /\ \E i \in 1 .. Len(progress_log) : progress_log[i] = Float(1, 2)
    /\ \E i \in 1 .. Len(progress_log) : progress_log[i] = Float(5, 8)

\* C25: along an axis of n pixels, with tile size T and offset component e, the pad
\* amount is ((-n) mod T) + e*T, the leading pad is floor(pad / 2) and the trailing pad
\* is the rest (so trailing - leading is 0 or 1), the padded length n + pad is a
\* multiple of T and the axis has ceil(n / T) + e tiles (513 pixels and T = 256: 3
\* tiles with e = 0, 4 with e = 1); every padded pixel outside the image holds 255.
\* Facts that do not depend on the state are evaluated in the initial states of the
\* 1 x 1 images only
ArithmeticState == pc = "start" /\ image.shape = <<1, 1>>

PadAmount(n, size, e) == ((-n) % size) + e * size

CeilDiv(n, size) == (n + size - 1) \div size

AxisPadsAsStated(n, size, e, axis_pads) ==
    LET pad == PadAmount(n, size, e)
    IN  /\ axis_pads[1] = pad \div 2
        /\ axis_pads[2] = pad - axis_pads[1]
        /\ axis_pads[2] - axis_pads[1] \in {0, 1}
        /\ (n + axis_pads[1] + axis_pads[2]) % size = 0
        /\ (n + axis_pads[1] + axis_pads[2]) \div size = CeilDiv(n, size) + e

C25_PadArithmetic ==
    /\ InPass =>
          /\ AxisPadsAsStated(Rows(image), tile_size, extra_pads[1], pads[1])
          /\ AxisPadsAsStated(Cols(image), tile_size, extra_pads[2], pads[2])
          /\ Rows(padded_image) = Rows(image) + pads[1][1] + pads[1][2]
          /\ Cols(padded_image) = Cols(image) + pads[2][1] + pads[2][2]
          /\ tile_row_count = CeilDiv(Rows(image), tile_size) + extra_pads[1]
          /\ tile_col_count = CeilDiv(Cols(image), tile_size) + extra_pads[2]
          /\ \A q \in Index(Rows(padded_image), Cols(padded_image)) :
                ( \/ q[1] < pads[1][1] \/ q[1] >= pads[1][1] + Rows(image)
                  \/ q[2] < pads[2][1] \/ q[2] >= pads[2][1] + Cols(image) ) =>
                    \A k \in 1 .. Len(padded_image.at[q]) : padded_image.at[q][k] = 255
    /\ ArithmeticState =>
          /\ \A n \in 1 .. 12, size \in 1 .. 6, e \in 0 .. 1 :
                /\ AxisPadsAsStated(n, size, e, image_pads(n, 1, size, <<e, 0>>)[1])
                /\ AxisPadsAsStated(n, size, e, image_pads(1, n, size, <<0, e>>)[2])
          /\ image_pads(513, 513, 256, <<0, 0>>) = <<<<127, 128>>, <<127, 128>>>>
          /\ image_pads(513, 513, 256, <<1, 1>>) = <<<<255, 256>>, <<255, 256>>>>
          /\ AxisPadsAsStated(513, 256, 0, image_pads(513, 513, 256, <<0, 1>>)[1])
          /\ AxisPadsAsStated(513, 256, 1, image_pads(513, 513, 256, <<0, 1>>)[2])
          /\ CeilDiv(513, 256) = 3

C25_Witness ==
    /\ pc = "tiles"
    /\ Rows(image) = 3
    /\ Cols(image) = 1
    /\ tile_size = 2
    /\ extra_pads = <<1, 0>>
    /\ pads = <<<<1, 2>>, <<0, 1>>>>
    /\ tile_row_count = 3
    /\ tile_col_count = 1
    /\ padded_image.at[<<0, 0>>][1] = 255
    /\ padded_image.at[<<1, 0>>][1] # 255

\* C26: for an even tile size the leading pad with offset component 1 is the leading
\* pad with offset component 0 plus T/2, so the grid of a shifted pass lies half a
\* tile away from the unshifted one: an image pixel in the first or last row (column)
\* of a tile of one alignment is in row (column) T/2 - 1 or T/2 of its tile in the
\* other, at distance T/2 - 1 from the nearest tile border.
HalfTileShift(n, size) ==
    LET lead0 == image_pads(n, n, size, <<0, 0>>)[1][1]
        lead1 == image_pads(n, n, size, <<1, 1>>)[1][1]
    IN  /\ lead1 = lead0 + size \div 2
        /\ image_pads(n, n, size, <<0, 0>>)[2][1] = lead0
        /\ image_pads(n, n, size, <<1, 1>>)[2][1] = lead1
        /\ \A x \in 0 .. n - 1 :
              LET a0 == (lead0 + x) % size
                  a1 == (lead1 + x) % size
              IN  /\ a0 \in {0, size - 1} =>
                        /\ a1 \in {size \div 2 - 1, size \div 2}
                        /\ EdgeDistance(size, a1) = size \div 2 - 1
                  /\ a1 \in {0, size - 1} =>
                        /\ a0 \in {size \div 2 - 1, size \div 2}
                        /\ EdgeDistance(size, a0) = size \div 2 - 1

C26_HalfTileShift ==
    /\ InPass =>
          /\ pads[1][1] = image_pads(Rows(image), Cols(image), tile_size, <<0, 0>>)[1][1]
                              + extra_pads[1] * (tile_size \div 2)
          /\ pads[2][1] = image_pads(Rows(image), Cols(image), tile_size, <<0, 0>>)[2][1]
                              + extra_pads[2] * (tile_size \div 2)
          /\ HalfTileShift(Rows(image), tile_size)
          /\ HalfTileShift(Cols(image), tile_size)
    /\ ArithmeticState =>
          \A n \in 1 .. 12, half \in 1 .. 4 : HalfTileShift(n, 2 * half)

C26_Witness ==
    /\ pc = "tiles"
    /\ tile_size = 4
    /\ Rows(image) = 3
    /\ extra_pads = <<1, 0>>
    /\ pads[1][1] = 2
    /\ image_pads(Rows(image), Cols(image), tile_size, <<0, 0>>)[1][1] = 0
    /\ HalfTileShift(Rows(image), tile_size)

\* C23: a tiled pass accepts offset pairs with fractional components: the padded
\* image is a dense grid of whole tiles and the pass goes on (no error), for every
\* offset pair, with components 0.5 or 1.5 too.
C23_FractionalOffsets ==
    pad_result # None =>
        /\ Get(pad_result).error = ""
        /\ Get(pad_result).shape[1] % Get(pad_call).tile_size = 0
        /\ Get(pad_result).shape[2] % Get(pad_call).tile_size = 0
        /\ Get(pad_result).tiles[1] * Get(pad_call).tile_size = Get(pad_result).shape[1]
        /\ Get(pad_result).tiles[2] * Get(pad_call).tile_size = Get(pad_result).shape[2]

\* With int offsets the call gives the pads and the grid of the passes of a request,
\* and with a float among the offsets, whatever its value, it raises TypeError
OffsetsByNumberType ==
    pad_result # None =>
        LET call == Get(pad_call)
            ints == ~call.extra_pads[1].is_float /\ ~call.extra_pads[2].is_float
            offsets == <<call.extra_pads[1].value[1], call.extra_pads[2].value[1]>>
            p == image_pads(call.rows, call.cols, call.tile_size, offsets)
        IN  IF ints
            THEN /\ Get(pad_result).error = ""
                 /\ Get(pad_result).shape = <<call.rows + p[1][1] + p[1][2],
                                              call.cols + p[2][1] + p[2][2]>>
                 /\ Get(pad_result).tiles =
                        <<CeilDiv(call.rows, call.tile_size) + offsets[1],
                          CeilDiv(call.cols, call.tile_size) + offsets[2]>>
            ELSE Get(pad_result).error = "TypeError"

\* Were the float pad widths taken as integers, the grid of a half-tile offset would
\* still not be one of whole tiles
HalfTileOffsetNotTiled ==
    \A rows \in 1 .. 4, size \in {2, 4} :
        LET p == py_image_pads(rows, rows, size, <<PyFloat(Float(1, 2)), PyInt(0)>>)
        IN  (rows + p[1][1].value[1] + p[1][2].value[1]) % size # 0

\* C24: a blend run whose profile has an empty offset sequence fails before any tiled
\* pass is created and before any call of the Segmenter, and no mask comes out of it.
C24_EmptyOffsetsFailFast ==
    ( /\ blend_log # <<>>
      /\ profile_extra_pads_sequence(blend_log[Len(blend_log)]) = <<>> ) =>
        /\ pc = "failed"
        /\ pass_log = <<>>
        /\ segment_calls = <<>>
        /\ mask = None
        /\ masks = <<>>
        /\ combined_mask = None

C24_Witness ==
    /\ blend_log # <<>>
    /\ profile_extra_pads_sequence(blend_log[Len(blend_log)]) = <<>>
    /\ pc = "failed"

\* A profile object with a non-empty sequence of its own runs one pass per pair
SuppliedOffsetsRun ==
    ( /\ pc = "finished"
      /\ "extra_pads_sequence" \in DOMAIN segmentation_profiles[1] ) =>
        /\ Len(masks) = 1
        /\ pass_log = [i \in 1 .. 2 |-> [extra_pads |-> segmentation_profiles[1].extra_pads_sequence[i],
                                         binarize_mask |-> FALSE]]

\* C27: a blend run leaves the input image and the tile weights of its profile as
\* they were: no step of a run changes the image or a profile, and the weight total it
\* accumulates in place lives in an array of a pass of the run, also when the grid of
\* the first pass is one tile and its pads are zero.
C27_InputsUnchanged ==
    [][ /\ image' = image
        /\ segmentation_profiles # <<>> => segmentation_profiles' = segmentation_profiles
        /\ weight_sum_base' # None => Get(weight_sum_base').owner = "pass" ]_vars

\* A later pass has added its weights in place where the first pass had one tile and
\* zero pads
C27_Witness ==
    /\ pass_iter >= 2
    /\ weight_sum # None
    /\ Get(weight_sum_base).origin = <<0, 0>>
    /\ image.shape = <<tile_size, tile_size>>
    /\ Get(weight_sum) # profile.tile_weights

\* ------------------------------------------------------------------ combine_class_masks alone
\* Most classes that InitCombine draws.
MaxClasses == 3

\* A finished multi-class run on a 1 x 2 image and its class masks: class i has
\* foreground id i and background id 0, and every pixel of its mask is 0 or i
FinishedRun ==
    /\ pc = "finished"
    /\ image = image_pixels("coded", 1, 2, 3)
    /\ image_channels = 3
    /\ segmentation_mode = "FAST"
    /\ \E n \in 1 .. MaxClasses :
          /\ class_segmenters = [i \in 1 .. n |-> ClassSegmenter("pixel", 2, 1, 0, i)]
          /\ \E marks \in [1 .. n -> [Index(1, 2) -> BOOLEAN]] :
                masks = [i \in 1 .. n |->
                            Array(1, 2, LAMBDA r, c: IF marks[i][<<r, c>>] THEN i ELSE 0)]
    /\ segmentation_profiles = <<>>
    /\ class_iter = Len(class_segmenters)
    /\ class_finished_subtask_count = 0
    /\ blend_log = <<>>
    /\ pass_iter = 0
    /\ finished_subtask_count = 0
    /\ mask = None
    /\ weighted_mask = None
    /\ weight_sum = None
    /\ weight_sum_base = None
    /\ pass_log = <<>>
    /\ extra_pads = <<0, 0>>
    /\ binarize_mask = TRUE
    /\ padded_image = EmptyArray
    /\ pads = <<<<0, 0>>, <<0, 0>>>>
    /\ padded_mask = EmptyArray
    /\ write_count = Full(0, 0, 0)
    /\ tile_row_count = 0
    /\ tile_col_count = 0
    /\ total_tile_count = 0
    /\ segmented_tile_count = 0
    /\ tile_pos = 0
    /\ tile_batch = <<>>
    /\ tile_rc_batch = <<>>
    /\ segment_calls = <<>>
    /\ step_progress = <<>>
    /\ progress_log = <<>>
    /\ combined_mask = None
    /\ is_cancelled = FALSE
    /\ mask_at_cancel = None
    /\ raised = FALSE

InitCombine == FinishedRun /\ InitAux

SpecCombine == InitCombine /\ [][combine]_vars

\* ------------------------------------------------------------------ mask layer of the GUI
MaskDrawModes == {"REDRAW_ALL", "OVERLAY_FOREGROUND", "FILL_BACKGROUND"}

\* layer.image_pixels[where] = value(pixel), for a boolean array where
assign_where(pixels, where, value(_)) ==
    Array(Rows(pixels), Cols(pixels),
          LAMBDA r, c: IF where.at[<<r, c>>] THEN value(<<r, c>>) ELSE pixels.at[<<r, c>>])

\* layered_image.add_layer_or_modify_pixels(mask_layer_name, mask, ...): afterwards the
\* layer of that name exists and its pixels are those of mask
add_layer_or_modify_pixels(class_mask) ==
    Some([is_image_pixels_valid |-> TRUE, image_pixels |-> class_mask])

\* MultipassTiledMdiSegmenter.update_mask_layer: the layer afterwards and the returned
\* is_modified
update_mask_layer(class_segmenter, class_mask, layer, draw_mode) ==
    IF draw_mode = "REDRAW_ALL" \/ layer = None \/ ~Get(layer).is_image_pixels_valid
    THEN [layer |-> add_layer_or_modify_pixels(class_mask), is_modified |-> None]
    ELSE IF draw_mode = "OVERLAY_FOREGROUND"
         THEN LET is_modified ==
                      Array(Rows(class_mask), Cols(class_mask),
                            LAMBDA r, c: class_mask.at[<<r, c>>] =
                                             class_segmenter.mask_foreground_class)
              IN  [layer |-> Some([Get(layer) EXCEPT !.image_pixels =
                                      assign_where(@, is_modified,
                                          LAMBDA q: class_segmenter.mask_foreground_class)]),
                   is_modified |-> Some(is_modified)]
         ELSE LET pixels == Get(layer).image_pixels
                  is_modified ==
                      Array(Rows(pixels), Cols(pixels),
                            LAMBDA r, c: pixels.at[<<r, c>>] =
                                             class_segmenter.mask_background_class)
              IN  [layer |-> Some([Get(layer) EXCEPT !.image_pixels =
                                      assign_where(@, is_modified, LAMBDA q: class_mask.at[q])]),
                   is_modified |-> Some(is_modified)]

\* is_foreground_class without the restriction to modifiable_mask
is_foreground_class_unrestricted(class_segmenter, class_mask, modifiable_mask) ==
    Array(Rows(class_mask), Cols(class_mask),
          LAMBDA r, c: class_mask.at[<<r, c>>] = class_segmenter.mask_foreground_class)

\* is_foreground_class of update_mask_layer_partially (lines 72-74)
is_foreground_class(class_segmenter, class_mask, modifiable_mask) ==
    Array(Rows(class_mask), Cols(class_mask),
          LAMBDA r, c: /\ class_mask.at[<<r, c>>] = class_segmenter.mask_foreground_class
                       /\ modifiable_mask # None => Get(modifiable_mask).at[<<r, c>>])

\* MultipassTiledMdiSegmenter.update_mask_layer_partially: the layer afterwards
update_mask_layer_partially(class_segmenter, class_mask, layer, modifiable_mask) ==
    Some([Get(layer) EXCEPT !.image_pixels =
             assign_where(@, is_foreground_class(class_segmenter, class_mask, modifiable_mask),
                          LAMBDA q: class_segmenter.mask_foreground_class)])

\* Every mask drawn in the draw mode of the request
later_draw_mode_of_request(draw_mode) == draw_mode

\* The draw mode of the masks after the first (lines 201-204): REDRAW_ALL and
\* OVERLAY_FOREGROUND overlay them, FILL_BACKGROUND updates the layer partially
later_draw_mode(draw_mode) ==
    IF draw_mode \in {"REDRAW_ALL", "OVERLAY_FOREGROUND"} THEN "OVERLAY_FOREGROUND" ELSE draw_mode

\* The loop over zip(self._class_mdi_segmenters[1:], masks[1:]) from position i on
RECURSIVE draw_from(_, _, _, _, _, _)
draw_from(layer, class_masks, segmenters, draw_mode, modifiable_mask, i) ==
    IF i > Len(class_masks) \/ i > Len(segmenters) THEN layer
    ELSE draw_from(
             IF later_draw_mode(draw_mode) = "FILL_BACKGROUND"
             THEN update_mask_layer_partially(segmenters[i], class_masks[i], layer,
                                              modifiable_mask)
             ELSE update_mask_layer(segmenters[i], class_masks[i], layer,
                                    later_draw_mode(draw_mode)).layer,
             class_masks, segmenters, draw_mode, modifiable_mask, i + 1)

\* The pixel values a mask layer can hold before the request
LayerValues == {0, 1, 2}

\* The mask layers a request can find: none, one without valid pixels, one with pixels
MaskLayers ==
    {None, Some([is_image_pixels_valid |-> FALSE, image_pixels |-> EmptyArray])}
    \cup { Some([is_image_pixels_valid |-> TRUE,
                 image_pixels |-> Array(1, 2, LAMBDA r, c: v[<<r, c>>])]) :
              v \in [Index(1, 2) -> LayerValues] }

\* PcaMdiSegmenter.segment_async(mask_layer_name, segmentation_mode, mask_draw_mode) whose
\* multi-class run has finished; the class segmenters of the GUI wrap those of the
\* PcaSegmenter, in their order
InitGui ==
    /\ FinishedRun
    /\ NoPadCall
    /\ mask_draw_mode \in MaskDrawModes
    /\ mask_layer \in MaskLayers
    /\ mask_layer_before = None
    /\ NoDirRun
    /\ NoConcurrentRequests

\* PcaMdiSegmenter._on_pca_segmentation_finished(masks, ...)
on_pca_segmentation_finished ==
    /\ pc = "finished"
    /\ mask_layer_before = None
    /\ mask_layer_before' = Some(mask_layer)
    /\ LET first == update_mask_layer(class_segmenters[1], masks[1], mask_layer, mask_draw_mode)
       IN  mask_layer' = draw_from(first.layer, masks, class_segmenters, mask_draw_mode,
                                   first.is_modified, 2)
    /\ UNCHANGED <<core_vars, pad_vars, dir_vars, concurrent_vars, mask_draw_mode>>

SpecGui == InitGui /\ [][on_pca_segmentation_finished]_vars

\* The mask layer before and after the completion callback, both with valid pixels
LayerDrawnOver ==
    /\ mask_layer_before # None
    /\ Get(mask_layer_before) # None
    /\ Get(Get(mask_layer_before)).is_image_pixels_valid

PixelsBefore == Get(Get(mask_layer_before)).image_pixels
PixelsAfter == Get(mask_layer).image_pixels

\* C28: with draw mode REDRAW_ALL the mask layer the completion callback leaves is
\* combine_class_masks of the same masks, the class segmenters of the GUI being those
\* of the PcaSegmenter in their order.
C28_RedrawAllIsCombined ==
    (mask_layer_before # None /\ mask_draw_mode = "REDRAW_ALL") =>
        /\ mask_layer # None
        /\ Get(mask_layer).is_image_pixels_valid
        /\ PixelsAfter = combine_class_masks(masks, class_segmenters)

\* Two class masks with foreground at one pixel: the later one is on top
C28_Witness ==
    /\ mask_layer_before # None
    /\ mask_draw_mode = "REDRAW_ALL"
    /\ Len(masks) >= 2
    /\ \E q \in Index(1, 2) : masks[1].at[q] = 1 /\ masks[2].at[q] = 2 /\ PixelsAfter.at[q] = 2
    /\ \E q \in Index(1, 2) : masks[1].at[q] = 1 /\ PixelsAfter.at[q] = 1

\* C29: over an existing valid mask layer, draw mode FILL_BACKGROUND leaves every pixel
\* that was not the background class as it was, for every class mask, and draw mode
\* OVERLAY_FOREGROUND changes only pixels at which some class mask has its foreground id.
C29_DrawModeFrames ==
    LayerDrawnOver =>
        /\ mask_draw_mode = "FILL_BACKGROUND" =>
              \A q \in Index(1, 2) :
                  PixelsBefore.at[q] # class_segmenters[1].mask_background_class =>
                      PixelsAfter.at[q] = PixelsBefore.at[q]
        /\ mask_draw_mode = "OVERLAY_FOREGROUND" =>
              \A q \in Index(1, 2) :
                  PixelsAfter.at[q] # PixelsBefore.at[q] =>
                      \E i \in 1 .. Len(masks) :
                          masks[i].at[q] = class_segmenters[i].mask_foreground_class

\* A later class mask has foreground at a pixel the layer had drawn and at one it had
\* not: only the second is written
C29_Witness ==
    /\ LayerDrawnOver
    /\ mask_draw_mode = "FILL_BACKGROUND"
    /\ Len(masks) >= 2
    /\ \E q \in Index(1, 2) :
          PixelsBefore.at[q] = 1 /\ masks[2].at[q] = 2 /\ PixelsAfter.at[q] = 1
    /\ \E q \in Index(1, 2) :
          PixelsBefore.at[q] = 0 /\ masks[2].at[q] = 2 /\ PixelsAfter.at[q] = 2

\* OVERLAY_FOREGROUND over a valid layer has changed a pixel and kept another
OverlayWitness ==
    /\ LayerDrawnOver
    /\ mask_draw_mode = "OVERLAY_FOREGROUND"
    /\ \E q \in Index(1, 2) : PixelsAfter.at[q] # PixelsBefore.at[q]
    /\ \E q \in Index(1, 2) : PixelsAfter.at[q] = PixelsBefore.at[q] /\ PixelsBefore.at[q] = 2

\* Without a valid layer to draw over, FILL_BACKGROUND and OVERLAY_FOREGROUND draw the
\* first mask whole, and the later masks overlay their foreground on it
WithoutLayerDrawnWhole ==
    (mask_layer_before # None /\ ~LayerDrawnOver) =>
        PixelsAfter = combine_class_masks(masks, class_segmenters)

\* ------------------------------------------------------------------ directory run
\* A path relative to image_dir or mask_dir: its folder ("" for the top), the stem and
\* the suffix of its name
RelativePath(folder, stem, suffix) == [folder |-> folder, stem |-> stem, suffix |-> suffix]

\* What can lie under image_dir: two images of the top folder that differ in their
\* extension only, a file no reader takes, a subfolder and an image in it
DirEntries ==
    << [path |-> RelativePath("", "a", ".tif"), is_file |-> TRUE, can_read |-> TRUE],
       [path |-> RelativePath("", "a", ".svs"), is_file |-> TRUE, can_read |-> TRUE],
       [path |-> RelativePath("", "b", ".txt"), is_file |-> TRUE, can_read |-> FALSE],
       [path |-> RelativePath("", "sub", ""), is_file |-> FALSE, can_read |-> FALSE],
       [path |-> RelativePath("sub", "a", ".tif"), is_file |-> TRUE, can_read |-> TRUE] >>

Reversed(seq) == [i \in 1 .. Len(seq) |-> seq[Len(seq) + 1 - i]]

\* relative_image_path.with_suffix('.png'): the suffix of the name replaced
with_suffix(path, suffix) == [path EXCEPT !.suffix = suffix]

\* _assemble_mask_path: mask_dir / relative_image_path.with_suffix('.png'), as a path
\* relative to mask_dir
assemble_mask_path(relative_image_path) == with_suffix(relative_image_path, ".png")

\* The pattern matching every entry, whatever include_subdirs is
glob_matches_every(entry, include_subdirs) == TRUE

\* image_dir.glob(pattern): '**/*' yields the entries of every depth, '*' those of the
\* top folder
glob_matches(entry, include_subdirs) == include_subdirs \/ entry.path.folder = ""

\* The test of _prepare_relative_image_paths on one entry of the glob (lines 96-103)
is_selected(entry, config, existing) ==
    /\ entry.is_file /\ entry.can_read
    /\ config.overwrite_existing_masks \/ assemble_mask_path(entry.path) \notin existing

\* exists() for the paths under mask_dir
ExistingMasks == DOMAIN mask_dir

\* The mask files a run can find: any of the mirrored paths, written before the run
MaskPaths == {RelativePath("", "a", ".png"), RelativePath("sub", "a", ".png")}

\* PcaDirSegmenter.segment_async(config) with image_dir a directory
InitDir ==
    /\ InitIdle
    /\ NoPadCall
    /\ NoGuiRequest
    /\ NoConcurrentRequests
    /\ \E include_subdirs \in BOOLEAN, overwrite_existing_masks \in BOOLEAN :
          dir_config = Some([include_subdirs |-> include_subdirs,
                             overwrite_existing_masks |-> overwrite_existing_masks])
    /\ \E present \in SUBSET (1 .. Len(DirEntries)), backwards \in BOOLEAN :
          LET entries == SelectSeq([i \in 1 .. Len(DirEntries) |-> [entry |-> DirEntries[i], i |-> i]],
                                   LAMBDA e: e.i \in present)
              found == [i \in 1 .. Len(entries) |-> entries[i].entry]
          IN  image_dir = IF backwards THEN Reversed(found) ELSE found
    /\ \E existing \in SUBSET MaskPaths : mask_dir = [m \in existing |-> None]
    /\ relative_image_paths = None
    /\ dir_finished_subtask_count = 0
    /\ write_log = <<>>

\* _prepare_relative_image_paths
prepare_relative_image_paths ==
    /\ dir_config # None
    /\ relative_image_paths = None
    /\ LET globbed == SelectSeq(image_dir,
                                LAMBDA e: glob_matches(e, Get(dir_config).include_subdirs))
           selected == SelectSeq(globbed,
                                 LAMBDA e: is_selected(e, Get(dir_config), ExistingMasks))
       IN  relative_image_paths' = Some([i \in 1 .. Len(selected) |-> selected[i].path])
    /\ UNCHANGED <<core_vars, pad_vars, gui_vars, concurrent_vars, dir_config, image_dir, mask_dir,
                   dir_finished_subtask_count, write_log>>

\* One iteration of the loop of _segment_dir_files: the file is read and segmented, its
\* class masks are combined and the mask is written to the assembled path
segment_dir_file ==
    /\ relative_image_paths # None
    /\ dir_finished_subtask_count < Len(Get(relative_image_paths))
    /\ LET relative_image_path == Get(relative_image_paths)[dir_finished_subtask_count + 1]
           mask_path == assemble_mask_path(relative_image_path)
       IN  /\ write_log' = Append(write_log, [image |-> relative_image_path,
                                              mask_path |-> mask_path,
                                              existed |-> mask_path \in ExistingMasks])
           /\ mask_dir' = [m \in ExistingMasks \cup {mask_path} |->
                              IF m = mask_path THEN Some(relative_image_path) ELSE mask_dir[m]]
    /\ dir_finished_subtask_count' = dir_finished_subtask_count + 1
    /\ UNCHANGED <<core_vars, pad_vars, gui_vars, concurrent_vars, dir_config, image_dir,
                   relative_image_paths>>

NextDir == prepare_relative_image_paths \/ segment_dir_file

SpecDir == InitDir /\ [][NextDir]_vars

\* The scan has been made; the run is complete
Scanned == relative_image_paths # None
DirRunComplete == Scanned /\ dir_finished_subtask_count = Len(Get(relative_image_paths))

\* The mask paths that existed when the directory was scanned: those no file of the run
\* has created
MasksAtScan == ExistingMasks \ {write_log[k].mask_path : k \in {j \in 1 .. Len(write_log) : ~write_log[j].existed}}

\* The positions of image_dir whose file the claim says is segmented
StatedSelection ==
    {i \in 1 .. Len(image_dir) :
        /\ image_dir[i].is_file /\ image_dir[i].can_read
        /\ Get(dir_config).include_subdirs \/ image_dir[i].path.folder = ""
        /\ \/ Get(dir_config).overwrite_existing_masks
           \/ [folder |-> image_dir[i].path.folder, stem |-> image_dir[i].path.stem,
               suffix |-> ".png"] \notin MasksAtScan}

\* C22: a directory run segments exactly the readable files under image_dir (of the
\* subfolders too exactly when include_subdirs is set) whose mirrored mask path did not
\* exist at the scan, or all of them when overwrite_existing_masks is set; each of them
\* once, in scan order, and its mask is written to mask_dir/<relative path with .png>.
C22_DirRunSelection ==
    Scanned =>
        LET paths == Get(relative_image_paths)
        IN  /\ \E at \in [1 .. Len(paths) -> StatedSelection] :
                  /\ \A k \in 1 .. Len(paths) : image_dir[at[k]].path = paths[k]
                  /\ \A k, l \in 1 .. Len(paths) : k < l => at[k] < at[l]
                  /\ \A i \in StatedSelection : \E k \in 1 .. Len(paths) : at[k] = i
            /\ Len(write_log) = dir_finished_subtask_count
            /\ Len(write_log) <= Len(paths)
            /\ \A k \in 1 .. Len(write_log) :
                  /\ write_log[k].image = paths[k]
                  /\ write_log[k].mask_path =
                         [folder |-> paths[k].folder, stem |-> paths[k].stem, suffix |-> ".png"]
                  /\ write_log[k].mask_path \in ExistingMasks

\* A complete run over the subfolders too that has left out the unreadable file, the
\* folder and the images whose mask existed, and has segmented the image of the subfolder
C22_Witness ==
    /\ DirRunComplete
    /\ Get(dir_config).include_subdirs
    /\ ~Get(dir_config).overwrite_existing_masks
    /\ Len(image_dir) = Len(DirEntries)
    /\ RelativePath("", "a", ".png") \in ExistingMasks
    /\ mask_dir[RelativePath("", "a", ".png")] = None
    /\ Len(write_log) = 1
    /\ write_log[1].image = RelativePath("sub", "a", ".tif")

\* C30: distinct selected image files are written to distinct mask paths, so a run with
\* overwrite_existing_masks = false never writes over a mask file, whether it existed
\* before the run or was written earlier in the run.
C30_NoMaskOverwritten ==
    /\ \A k, l \in 1 .. Len(write_log) :
          write_log[k].image # write_log[l].image =>
              write_log[k].mask_path # write_log[l].mask_path
    /\ (dir_config # None /\ ~Get(dir_config).overwrite_existing_masks) =>
          \A k \in 1 .. Len(write_log) : ~write_log[k].existed

\* The part of C30 that holds: without overwrite_existing_masks no mask file that
\* existed before the run is written
MasksBeforeRunKept ==
    (dir_config # None /\ ~Get(dir_config).overwrite_existing_masks) =>
        \A m \in ExistingMasks :
            (m \in MaskPaths /\ \A k \in 1 .. Len(write_log) : write_log[k].mask_path # m) =>
                mask_dir[m] = None

\* The overwritten masks are those of images whose names differ in the suffix only
OverwritesAreOfOneStem ==
    (dir_config # None /\ ~Get(dir_config).overwrite_existing_masks) =>
        \A l \in 1 .. Len(write_log) :
            write_log[l].existed =>
                \E k \in 1 .. l - 1 :
                    /\ write_log[k].image # write_log[l].image
                    /\ write_log[k].image.folder = write_log[l].image.folder
                    /\ write_log[k].image.stem = write_log[l].image.stem

\* ------------------------------------------------------------------ requests at once
\* The accesses of a request to objects, in program order. Create makes a new object
\* and binds the name to it, Alias binds the name to the object of another name (an
\* assignment, or a view of an array), Write and Read access the object of the name.
Create(name) == [op |-> "create", name |-> name, of |-> "", thread |-> "worker"]
Alias(name, of) == [op |-> "alias", name |-> name, of |-> of, thread |-> "worker"]
Write(name) == [op |-> "write", name |-> name, of |-> "", thread |-> "worker"]
Read(name) == [op |-> "read", name |-> name, of |-> "", thread |-> "worker"]

\* Steps that run in the thread of the caller of segment_async
OnCaller(steps) == [i \in 1 .. Len(steps) |-> [steps[i] EXCEPT !.thread = "caller"]]

RECURSIVE Concat(_)
Concat(seqs) == IF seqs = <<>> THEN <<>> ELSE Head(seqs) \o Concat(Tail(seqs))

\* MultipassTiledSegmentationProfile(...) and its __post_init__ (lines 372-382)
profile_steps ==
    <<Create("segmentation_profile"), Create("tile_weights"), Write("segmentation_profile")>>

\* One iteration of the tile loop of _segment_tiled_individually (lines 199-208)
tile_steps ==
    <<Read("padded_image"), Read("segmenter"), Write("padded_mask"),
      Write("tiled_segmentation_task")>>

\* _segment_tiled (lines 157-192) on an image of one tile
segment_tiled_steps ==
    <<Read("image"), Create("padded_image"), Create("padded_mask"),
      Write("tiled_segmentation_task")>>
    \o tile_steps
    \o <<Alias("mask", "padded_mask"), Read("tile_weights"), Create("padded_weights"),
         Alias("mask_weights", "padded_weights")>>

\* One iteration of the loop of _segment_multipass_tiled (lines 313-332)
pass_steps(pass, pass_count) ==
    <<Write("segmentation_task"), Create("tiled_segmentation_task")>>
    \o segment_tiled_steps
    \o ( IF pass_count > 1
         THEN IF pass = 1
              THEN <<Create("weighted_mask"), Alias("weight_sum", "mask_weights")>>
              ELSE <<Write("weighted_mask"), Write("weight_sum")>>
         ELSE <<>> )

\* _segment_multipass_tiled (lines 307-343)
multipass_steps(mode) ==
    LET pass_count == Len(extra_pads_sequence(mode))
    IN  <<Read("segmentation_profile")>>
        \o Concat([pass \in 1 .. pass_count |-> pass_steps(pass, pass_count)])
        \o (IF pass_count > 1 THEN <<Create("mask")>> ELSE <<>>)
        \o <<Create("mask"), Write("mask")>>

\* MultipassTiledSegmenter.segment_async (lines 94-112) and the run of its task
multipass_request_steps(mode) ==
    OnCaller(profile_steps
             \o <<Create("segmentation_task"), Write("segmentation_task"),
                  Write("task_storage")>>)
    \o multipass_steps(mode)

\* The classes of the PcaSegmenter of the requests: gleason_3 and gleason_4
RequestClasses == {1, 2}

\* PcaSegmenter.segment_async (lines 88-118) and the run of its task (lines 413-424)
pca_request_steps(mode) ==
    OnCaller(<<Create("segmentation_profiles")>>
             \o Concat([c \in RequestClasses |->
                           profile_steps \o <<Write("segmentation_profiles")>>])
             \o <<Create("pca_segmentation_task"), Write("pca_segmentation_task"),
                  Write("task_storage")>>)
    \o <<Create("masks")>>
    \o Concat([c \in RequestClasses |->
                  <<Write("pca_segmentation_task"), Read("segmentation_profiles"),
                    Create("segmentation_task")>>
                  \o multipass_steps(mode)
                  \o <<Write("masks")>>])

request_steps(kind, mode) ==
    IF kind = "PcaSegmenter" THEN pca_request_steps(mode) ELSE multipass_request_steps(mode)

\* The objects that exist before the requests: the image both requests are given, the
\* DnnSegmenter of the segmenter and its task storage
ApplicationObject(name) == [by |-> 0, k |-> 0, name |-> name]

\* Names bound in one place for all requests of a segmenter
request_scope_of_segmenter(r) == 1

\* The names of a request are the locals of its own call of segment_async and the
\* fields of the task objects that call creates
request_scope(r) == r

\* The object a name of request r stands for
object_of(r, name) ==
    IF name \in DOMAIN request_names[request_scope(r)]
    THEN request_names[request_scope(r)][name]
    ELSE ApplicationObject(name)

\* The requests that run at once
RequestIds == {1, 2}

\* Two calls of segment_async of one segmenter on one image
InitConcurrent ==
    /\ InitIdle
    /\ NoPadCall
    /\ NoGuiRequest
    /\ NoDirRun
    /\ \E kind \in {"MultipassTiledSegmenter", "PcaSegmenter"} :
          \E modes \in [RequestIds -> SegmentationModes] :
              requests = [r \in RequestIds |->
                             [kind |-> kind, mode |-> modes[r],
                              steps |-> request_steps(kind, modes[r])]]
    /\ request_pos = [r \in RequestIds |-> 0]
    /\ request_names = [r \in RequestIds |-> <<>>]
    /\ request_created = [r \in RequestIds |-> 0]
    /\ last_access = [r \in RequestIds |-> None]

\* Request r takes its next step
request_step(r) ==
    /\ r \in 1 .. Len(requests)
    /\ request_pos[r] < Len(requests[r].steps)
    /\ LET step == requests[r].steps[request_pos[r] + 1]
           scope == request_scope(r)
           names == request_names[scope]
           bound(name, object) ==
               [request_names EXCEPT ![scope] =
                   [n \in DOMAIN names \cup {name} |-> IF n = name THEN object ELSE names[n]]]
           created == [by |-> r, k |-> request_created[r] + 1, name |-> step.name]
       IN  /\ request_pos' = [request_pos EXCEPT ![r] = @ + 1]
           /\ request_names' =
                  IF step.op = "create" THEN bound(step.name, created)
                  ELSE IF step.op = "alias" THEN bound(step.name, object_of(r, step.of))
                  ELSE request_names
           /\ request_created' =
                  IF step.op = "create" THEN [request_created EXCEPT ![r] = @ + 1]
                  ELSE request_created
           /\ last_access' =
                  IF step.op \in {"write", "read"}
                  THEN [last_access EXCEPT ![r] =
                           Some([op |-> step.op, object |-> object_of(r, step.name),
                                 thread |-> step.thread])]
                  ELSE last_access
    /\ UNCHANGED <<core_vars, pad_vars, gui_vars, dir_vars, requests>>

NextConcurrent == \E r \in RequestIds : request_step(r)

SpecConcurrent == InitConcurrent /\ [][NextConcurrent]_vars

SharedWritesOnCaller ==
    \A r \in 1 .. Len(requests) :
        last_access[r] # None =>
            LET access == Get(last_access[r])
            IN  (access.op = "write" /\ access.object.by # r) =>
                    /\ access.object = ApplicationObject("task_storage")
                    /\ access.thread = "caller"
====
